---- MODULE Spec2Model ----
(***************************************************************************)
(* Model of pkg/orchestrator of osapi-sdk: a Plan of Tasks with            *)
(* dependency edges, its validation (duplicate names, cycles), the         *)
(* levelization of the DAG and the runner that executes the levels one     *)
(* after another, the tasks of a level concurrently.                       *)
(*                                                                         *)
(* A *Task is modelled by its index in `tasks` (every Task ever created,   *)
(* by Plan.Task/Plan.TaskFunc or by NewTask/NewTaskFunc); `planTasks` is   *)
(* p.tasks.  Maps keyed by task name (color, level, results, failed) are   *)
(* keyed by name here too.  Durations are not modelled.                    *)
(***************************************************************************)
EXTENDS Integers, Sequences, FiniteSets, TLC

VARIABLES
    tasks,        \* every Task object created so far (index = identity)
    planTasks,    \* Plan.tasks: indices into `tasks`, in insertion order
    config,       \* Plan.config (OnErrorStrategy)
    pc,           \* position of the caller / of runner.run
    ret,          \* what Plan.Run returned: [done, report, tasks, err]
    levels,       \* runner.run: levels := levelize(r.plan.tasks)
    li,           \* runner.run: index i of the level being run (0-based)
    results,      \* runner.results: map name -> *Result
    failed,       \* runner.failed: set of names mapped to true
    mu,           \* runner.mu: 0 when free, else the task holding it
    taskResults,  \* runner.run: taskResults accumulated so far
    levelResults, \* runner.runLevel: results := make([]TaskResult, len)
    wpc,          \* per worker goroutine: position inside runTask
    attempt,      \* runTask: loop variable `attempt`
    result,       \* runTask: local `result`
    err,          \* runTask: local `err`
    tr,           \* runTask: the TaskResult being returned
    events,       \* per task: the hook calls made by its worker, in order
    planEvents,   \* hook calls made by runner.run itself, in order
    bodyCalls,    \* per task: number of invocations of t.fn / executeOp
    guardCalls,   \* per task: number of invocations of t.guard
    runErr,       \* runner.run: `err` returned by runLevel
    reason,       \* per task: the reason handed to callOnSkip
    ctxDone,      \* the ctx handed to Run: TRUE once it is cancelled
    resp,         \* executeOp / pollJob: the response of the last client call
    jobCreates,   \* per task: number of calls of client.Job.Create
    lastLevels,   \* the caller: what the last call of Plan.Levels returned
    lastExplain,  \* the caller: what the last call of Plan.Explain returned
    firstReport   \* the caller: what the first of two calls of Run returned

\* the context and the locals of executeOp and pollJob
opVars == <<ctxDone, resp, jobCreates>>

vars == <<tasks, planTasks, config, pc, ret, levels, li, results, failed, mu,
          taskResults, levelResults, wpc, attempt, result, err, tr, events,
          planEvents, bodyCalls, guardCalls, runErr, reason, ctxDone, resp,
          jobCreates, lastLevels, lastExplain, firstReport>>

\* what the caller keeps of its calls of Plan.Levels, Plan.Explain and Run
callerVars == <<lastLevels, lastExplain, firstReport>>

(***************************************************************************)
(* Bounds of the model.                                                    *)
(***************************************************************************)
MaxTasks == 3   \* Task objects created (in the plan or standalone)
MaxLoose == 1   \* of these, created by NewTask and never added to the plan
MaxDeps  == 2   \* dependencies added by DependsOn, over all tasks
MaxOpts  == 1   \* tasks that OnlyIfChanged / When / Task.OnError are called on
MaxRetry == 1   \* largest n of a Retry(n) strategy

\* the n of the Retry(n) strategies explored: Retry takes any int
RetryCounts == (-1)..MaxRetry

TaskIds == 1..MaxTasks
Names   == <<"a", "b", "c", "d", "e", "f">>
NameSet == {Names[i] : i \in 1..(MaxTasks + 1)}

(***************************************************************************)
(* options.go: error strategies.                                           *)
(***************************************************************************)
NoStrategy == [kind |-> "nil", retryCount |-> 0]   \* t.errorStrategy == nil
StopAll    == [kind |-> "stop_all", retryCount |-> 0]
Continue   == [kind |-> "continue", retryCount |-> 0]
Retry(n)   == [kind |-> "retry", retryCount |-> n]

Strategies == {StopAll, Continue} \cup {Retry(n) : n \in RetryCounts}

\* the default strategies explored for a plan (NewPlan without option, or
\* with OnError(Continue)); a Retry strategy is explored as a per-task
\* override, which effectiveStrategy treats the same way
PlanStrategies == {StopAll, Continue}

(***************************************************************************)
(* result.go: Result, TaskResult, statuses; errors.                        *)
(***************************************************************************)
StatusPending   == "pending"
StatusRunning   == "running"
StatusChanged   == "changed"
StatusUnchanged == "unchanged"
StatusSkipped   == "skipped"
StatusFailed    == "failed"

NilResult      == [isNil |-> TRUE, Changed |-> FALSE]    \* (*Result)(nil)
Result(changed) == [isNil |-> FALSE, Changed |-> changed]

NilErr         == [isNil |-> TRUE, task |-> 0, attempt |-> 0, cause |-> ""]
\* the error returned by attempt number a (0-based) of the body of task t
BodyErr(t, a)  == [isNil |-> FALSE, task |-> t, attempt |-> a, cause |-> "fn"]
ValidationErr  ==
    [isNil |-> FALSE, task |-> 0, attempt |-> 0, cause |-> "validate"]

NoTaskResult == [Name |-> "", Status |-> "", Changed |-> FALSE, Error |-> NilErr]
TaskResult(name, status, changed, e) ==
    [Name |-> name, Status |-> status, Changed |-> changed, Error |-> e]

\* Results.Get: r[name], nil when the key is absent
Get(r, name) == IF name \in DOMAIN r THEN r[name] ELSE NilResult

(***************************************************************************)
(* task.go: constructors and setters.                                      *)
(***************************************************************************)
NoOp == ""    \* t.op == nil: the task has a function, t.fn

\* NewTask(name, op)
NewTask(name, op) ==
    [name |-> name, op |-> op, deps |-> <<>>, guard |-> FALSE,
     requiresChange |-> FALSE, errorStrategy |-> NoStrategy]

\* NewTaskFunc(name, fn)
NewTaskFunc(name) == NewTask(name, NoOp)

InPlan(t) == \E i \in 1..Len(planTasks) : planTasks[i] = t

UsedNames == {tasks[t].name : t \in 1..Len(tasks)}
\* names are only ever compared for equality: a new task takes a name
\* already in use or the first unused one
NameChoices == {Names[i] : i \in 1..(Cardinality(UsedNames) + 1)}

RECURSIVE SumDeps(_)
SumDeps(n) == IF n = 0 THEN 0 ELSE Len(tasks[n].deps) + SumDeps(n - 1)
NumDeps == SumDeps(Len(tasks))

\* task n carries an option: a guard, only-if-changed or a strategy
Configured(n) ==
    \/ tasks[n].guard
    \/ tasks[n].requiresChange
    \/ tasks[n].errorStrategy # NoStrategy

RECURSIVE SumOpts(_)
SumOpts(n) ==
    IF n = 0 THEN 0
    ELSE (IF Configured(n) THEN 1 ELSE 0) + SumOpts(n - 1)
NumOpts == SumOpts(Len(tasks))

\* another option may be set on t: t carries one already, or one more task
\* may carry options
MayConfigure(t) == Configured(t) \/ NumOpts < MaxOpts

\* the tasks explored carry gates (a guard, only-if-changed, or both) or a
\* strategy of their own, not both kinds
GatesOnly(t)    == tasks[t].errorStrategy = NoStrategy
StrategyOnly(t) == ~tasks[t].guard /\ ~tasks[t].requiresChange

NumLoose == Len(tasks) - Len(planTasks)

(***************************************************************************)
(* plan.go: Validate and detectCycle.                                      *)
(***************************************************************************)
white == 0
gray  == 1
black == 2

RECURSIVE visit(_, _), visitDeps(_, _, _)
\* the closure `visit` of detectCycle: the color map after the call and
\* whether it returned an error
visit(t, color) ==
    LET r == visitDeps(t, 1, [color EXCEPT ![tasks[t].name] = gray])
    IN  IF r.err THEN r
        ELSE [color |-> [r.color EXCEPT ![tasks[t].name] = black], err |-> FALSE]

\* the loop `for _, dep := range t.deps` of visit, from the i-th dependency
visitDeps(t, i, color) ==
    IF i > Len(tasks[t].deps) THEN [color |-> color, err |-> FALSE]
    ELSE LET dep == tasks[t].deps[i]
             c   == color[tasks[dep].name]
         IN  IF c = gray THEN [color |-> color, err |-> TRUE]
             ELSE IF c = white
                  THEN LET r == visit(dep, color)
                       IN  IF r.err THEN r ELSE visitDeps(t, i + 1, r.color)
                  ELSE visitDeps(t, i + 1, color)

RECURSIVE detectFrom(_, _)
\* the loop `for _, t := range p.tasks` of detectCycle, from the i-th task
detectFrom(i, color) ==
    IF i > Len(planTasks) THEN FALSE
    ELSE LET t == planTasks[i]
         IN  IF color[tasks[t].name] = white
             THEN LET r == visit(t, color)
                  IN  IF r.err THEN TRUE ELSE detectFrom(i + 1, r.color)
             ELSE detectFrom(i + 1, color)

\* TRUE when detectCycle returns an error
detectCycle == detectFrom(1, [n \in NameSet |-> white])

RECURSIVE duplicateFrom(_, _)
\* the loop of Validate over p.tasks with the `names` map
duplicateFrom(i, names) ==
    IF i > Len(planTasks) THEN FALSE
    ELSE LET n == tasks[planTasks[i]].name
         IN  IF n \in names THEN TRUE ELSE duplicateFrom(i + 1, names \cup {n})

\* "nil" when Validate returns nil, else the kind of error it returns
Validate ==
    IF duplicateFrom(1, {}) THEN "duplicate task name"
    ELSE IF detectCycle THEN "cycle detected"
    ELSE "nil"

(***************************************************************************)
(* runner.go: levelize.                                                    *)
(***************************************************************************)
RECURSIVE computeLevel(_, _), computeDeps(_, _, _, _)
\* the closure computeLevel: the `level` map after the call and its value
computeLevel(t, level) ==
    IF tasks[t].name \in DOMAIN level
    THEN [level |-> level, l |-> level[tasks[t].name]]
    ELSE LET r == computeDeps(t, 1, level, -1)
         IN  [level |-> (tasks[t].name :> (r.maxDep + 1)) @@ r.level,
              l |-> r.maxDep + 1]

computeDeps(t, i, level, maxDep) ==
    IF i > Len(tasks[t].deps) THEN [level |-> level, maxDep |-> maxDep]
    ELSE LET r == computeLevel(tasks[t].deps[i], level)
         IN  computeDeps(t, i + 1, r.level,
                         IF r.l > maxDep THEN r.l ELSE maxDep)

RECURSIVE levelFrom(_, _, _)
\* the loop `for _, t := range tasks` of levelize computing maxLevel
levelFrom(i, level, maxLevel) ==
    IF i > Len(planTasks) THEN [level |-> level, maxLevel |-> maxLevel]
    ELSE LET r == computeLevel(planTasks[i], level)
         IN  levelFrom(i + 1, r.level,
                       IF r.l > maxLevel THEN r.l ELSE maxLevel)

EmptyMap == [n \in {} |-> 0]

\* a faulty variant: a task is put in its level and in every later one
levelizeCumulative ==
    LET r == levelFrom(1, EmptyMap, 0)
    IN  [k \in 1..(r.maxLevel + 1) |->
            SelectSeq(planTasks, LAMBDA t : r.level[tasks[t].name] <= k - 1)]

\* levelize(p.tasks): sequence of levels; level k of the code is levelize[k+1]
levelize ==
    LET r == levelFrom(1, EmptyMap, 0)
    IN  [k \in 1..(r.maxLevel + 1) |->
            SelectSeq(planTasks, LAMBDA t : r.level[tasks[t].name] = k - 1)]

\* Plan.Levels: [levels, err]
Levels ==
    IF Validate # "nil" THEN [levels |-> <<>>, isNil |-> TRUE, err |-> Validate]
    ELSE [levels |-> levelize, isNil |-> FALSE, err |-> "nil"]

\* the 0-based level of plan task t in a level sequence, -1 when in none
LevelOf(lv, t) ==
    IF \E k \in 1..Len(lv) : \E i \in 1..Len(lv[k]) : lv[k][i] = t
    THEN (CHOOSE k \in 1..Len(lv) : \E i \in 1..Len(lv[k]) : lv[k][i] = t) - 1
    ELSE -1

(***************************************************************************)
(* Initial state: NewPlan(client, opts...) with or without OnError(s).     *)
(***************************************************************************)
NoReturn  == [done |-> FALSE, isNil |-> TRUE, tasks |-> <<>>, err |-> NilErr]

\* the option lists NewPlan is called with: none, or one OnError(s)
PlanOptions == {<<>>} \cup {<<s>> : s \in PlanStrategies}

\* NewPlan(client, opts...): cfg := PlanConfig{OnErrorStrategy: StopAll},
\* then every option is applied in order; OnError(s) sets
\* cfg.OnErrorStrategy = s.  `client` is FALSE for a nil client; Plan.client
\* is kept with the configuration.
NewPlan(client, opts) ==
    [OnErrorStrategy |-> IF opts = <<>> THEN StopAll ELSE opts[Len(opts)],
     client |-> client]

\* the zero value of the response locals of executeOp and pollJob
NoResp == [err |-> FALSE, code |-> 0, status |-> ""]

\* the caller has not called Plan.Levels / Plan.Explain yet
NoCall == [called |-> FALSE, tasks |-> <<>>, planTasks |-> <<>>, out |-> <<>>,
           again |-> FALSE]

\* what does not depend on how NewPlan was called
InitRun ==
    /\ tasks = <<>>
    /\ planTasks = <<>>
    /\ pc = "build"
    /\ ret = NoReturn
    /\ levels = <<>>
    /\ li = 0
    /\ results = EmptyMap
    /\ failed = {}
    /\ mu = 0
    /\ taskResults = <<>>
    /\ levelResults = <<>>
    /\ wpc = [t \in TaskIds |-> "idle"]
    /\ attempt = [t \in TaskIds |-> 0]
    /\ result = [t \in TaskIds |-> NilResult]
    /\ err = [t \in TaskIds |-> NilErr]
    /\ tr = [t \in TaskIds |-> NoTaskResult]
    /\ events = [t \in TaskIds |-> <<>>]
    /\ planEvents = <<>>
    /\ bodyCalls = [t \in TaskIds |-> 0]
    /\ guardCalls = [t \in TaskIds |-> 0]
    /\ runErr = NilErr
    /\ reason = [t \in TaskIds |-> ""]
    /\ ctxDone = FALSE
    /\ resp = [t \in TaskIds |-> NoResp]
    /\ jobCreates = [t \in TaskIds |-> 0]
    /\ lastLevels = NoCall
    /\ lastExplain = NoCall
    /\ firstReport = NoReturn

\* a plan of functional tasks: the client is only handed on to the bodies
Init ==
    /\ InitRun
    /\ config \in {NewPlan(TRUE, opts) : opts \in PlanOptions}

runVars == <<ret, levels, li, results, failed, mu, taskResults, levelResults,
             wpc, attempt, result, err, tr, events, planEvents, bodyCalls,
             guardCalls, runErr, reason, ctxDone, resp, jobCreates,
             lastLevels, lastExplain, firstReport>>

(***************************************************************************)
(* Building the plan: plan.go Task/TaskFunc, task.go NewTask and setters.  *)
(***************************************************************************)
\* Plan.TaskFunc: a task whose body is a function of the caller, which may
\* return anything a body can return
PlanTask(name) ==
    /\ pc = "build"
    /\ Len(tasks) < MaxTasks
    /\ tasks' = Append(tasks, NewTaskFunc(name))
    /\ planTasks' = Append(planTasks, Len(tasks) + 1)
    /\ UNCHANGED <<config, pc>>
    /\ UNCHANGED runVars

\* t.DependsOn(NewTaskFunc(name, fn)): a dependency on a Task that was created
\* directly and is in no plan.  (A standalone Task that nothing depends on
\* is invisible to the plan and is not modelled.)
DependsOnLoose(t, name) ==
    /\ pc = "build"
    /\ Len(tasks) < MaxTasks
    /\ NumLoose < MaxLoose
    /\ NumDeps < MaxDeps
    /\ tasks' = Append([tasks EXCEPT ![t].deps = Append(@, Len(tasks) + 1)],
                       NewTaskFunc(name))
    /\ UNCHANGED <<planTasks, config, pc>>
    /\ UNCHANGED runVars

\* Task.DependsOn(dep)
DependsOn(t, dep) ==
    /\ pc = "build"
    /\ NumDeps < MaxDeps
    /\ tasks' = [tasks EXCEPT ![t].deps = Append(@, dep)]
    /\ UNCHANGED <<planTasks, config, pc>>
    /\ UNCHANGED runVars

\* Task.OnlyIfChanged()
OnlyIfChanged(t) ==
    /\ pc = "build"
    /\ MayConfigure(t)
    /\ GatesOnly(t)
    /\ InPlan(t)
    /\ ~tasks[t].requiresChange
    /\ tasks' = [tasks EXCEPT ![t].requiresChange = TRUE]
    /\ UNCHANGED <<planTasks, config, pc>>
    /\ UNCHANGED runVars

\* Task.When(fn)
When(t) ==
    /\ pc = "build"
    /\ MayConfigure(t)
    /\ GatesOnly(t)
    /\ InPlan(t)
    /\ ~tasks[t].guard
    /\ tasks' = [tasks EXCEPT ![t].guard = TRUE]
    /\ UNCHANGED <<planTasks, config, pc>>
    /\ UNCHANGED runVars

\* Task.OnError(strategy)
OnError(t, strategy) ==
    /\ pc = "build"
    /\ MayConfigure(t)
    /\ StrategyOnly(t)
    /\ InPlan(t)
    /\ tasks[t].errorStrategy = NoStrategy
    /\ tasks' = [tasks EXCEPT ![t].errorStrategy = strategy]
    /\ UNCHANGED <<planTasks, config, pc>>
    /\ UNCHANGED runVars

(***************************************************************************)
(* plan.go Run and runner.go run / runLevel: the caller's goroutine.       *)
(***************************************************************************)
\* runner.effectiveStrategy
\* a faulty variant: the per-task override is ignored
effectiveStrategyOfPlan(t) == config.OnErrorStrategy

effectiveStrategy(t) ==
    IF tasks[t].errorStrategy # NoStrategy
    THEN tasks[t].errorStrategy
    ELSE config.OnErrorStrategy

\* runTask: maxAttempts
\* a faulty variant: retryCount taken as the number of attempts
maxAttemptsWithoutFirst(t) ==
    IF effectiveStrategy(t).kind = "retry"
    THEN effectiveStrategy(t).retryCount
    ELSE 1

maxAttempts(t) ==
    IF effectiveStrategy(t).kind = "retry"
    THEN effectiveStrategy(t).retryCount + 1
    ELSE 1

\* the level being run
CurLevel == levels[li + 1]

\* position of task t in the level being run (index into levelResults)
PosInLevel(t) == CHOOSE i \in 1..Len(CurLevel) : CurLevel[i] = t

InCurLevel(t) ==
    /\ li < Len(levels)
    /\ \E i \in 1..Len(CurLevel) : CurLevel[i] = t

\* Plan.Run: `if err := p.Validate(); err != nil`
\* a faulty variant of the test: the duplicate-name loop is left out
runValidateFailsOnCycleOnly == detectCycle

runValidateFails == Validate # "nil"

\* Plan.Run up to the call of runner.run: Validate, newRunner, levelize
Run ==
    /\ pc = "build"
    /\ IF runValidateFails
       THEN /\ ret' = [done |-> TRUE, isNil |-> TRUE, tasks |-> <<>>,
                       err |-> ValidationErr]
            /\ pc' = "returned"
            /\ UNCHANGED <<levels, results, failed>>
       ELSE /\ results' = EmptyMap
            /\ failed' = {}
            /\ levels' = levelize
            /\ pc' = "beforePlan"
            /\ UNCHANGED ret
    /\ UNCHANGED <<tasks, planTasks, config, li, mu, taskResults,
                   levelResults, wpc, attempt, result, err, tr, events,
                   planEvents, bodyCalls, guardCalls, runErr, reason>>
    /\ UNCHANGED opVars
    /\ UNCHANGED callerVars

\* runner.run: r.callBeforePlan(r.plan.Explain()), then the loop starts
CallBeforePlan ==
    /\ pc = "beforePlan"
    /\ planEvents' = Append(planEvents, [ev |-> "before-plan"])
    /\ li' = 0
    /\ pc' = IF Len(levels) > 0 THEN "beforeLevel" ELSE "afterPlan"
    /\ UNCHANGED <<tasks, planTasks, config, ret, levels, results, failed, mu,
                   taskResults, levelResults, wpc, attempt, result, err, tr,
                   events, bodyCalls, guardCalls, runErr, reason>>
    /\ UNCHANGED opVars
    /\ UNCHANGED callerVars

\* a faulty variant: any level that holds a task is flagged parallel
parallelIfAny(level) == Len(level) > 0

\* runner.run: the `parallel` argument of callBeforeLevel, len(level) > 1
parallel(level) == Len(level) > 1

\* runner.run: r.callBeforeLevel(i, level, len(level) > 1)
CallBeforeLevel ==
    /\ pc = "beforeLevel"
    /\ planEvents' = Append(planEvents,
           [ev |-> "before-level", level |-> li, parallel |-> parallel(CurLevel)])
    /\ pc' = "runLevel"
    /\ UNCHANGED <<tasks, planTasks, config, ret, levels, li, results, failed,
                   mu, taskResults, levelResults, wpc, attempt, result, err,
                   tr, events, bodyCalls, guardCalls, runErr, reason>>
    /\ UNCHANGED opVars
    /\ UNCHANGED callerVars

\* runLevel: make the results slice and start one goroutine per task
RunLevel ==
    /\ pc = "runLevel"
    /\ levelResults' = [i \in 1..Len(CurLevel) |-> NoTaskResult]
    /\ wpc' = [t \in TaskIds |-> IF InCurLevel(t) THEN "depCheck" ELSE wpc[t]]
    /\ pc' = "wait"
    /\ UNCHANGED <<tasks, planTasks, config, ret, levels, li, results, failed,
                   mu, taskResults, attempt, result, err, tr, events,
                   planEvents, bodyCalls, guardCalls, runErr, reason>>
    /\ UNCHANGED opVars
    /\ UNCHANGED callerVars

\* a faulty variant: every failure aborts, whatever the strategy
abortsOnAny(strategy) == TRUE

\* a faulty variant: only a failure under stop_all aborts
abortsOnStopAll(strategy) == strategy.kind = "stop_all"

\* runLevel: `if strategy.kind != "continue"` for a failed task's strategy
abortsOn(strategy) == strategy.kind # "continue"

RECURSIVE lastError(_, _)
\* a faulty variant of the loop: it keeps going after the first match and
\* so returns the error of the last failed task that aborts
lastError(i, res) ==
    IF i > Len(res) THEN NilErr
    ELSE LET rest == lastError(i + 1, res)
         IN  IF ~rest.isNil THEN rest
             ELSE IF /\ res[i].Status = StatusFailed
                     /\ abortsOn(effectiveStrategy(CurLevel[i]))
                  THEN res[i].Error
                  ELSE NilErr

RECURSIVE firstError(_, _)
\* runLevel: the loop over results after wg.Wait(), from index i
firstError(i, res) ==
    IF i > Len(res) THEN NilErr
    ELSE IF /\ res[i].Status = StatusFailed
            /\ abortsOn(effectiveStrategy(CurLevel[i]))
         THEN res[i].Error
         ELSE firstError(i + 1, res)

\* a faulty variant: the results of failed tasks are left out
appendUnlessFailed(trs, res) ==
    trs \o SelectSeq(res, LAMBDA x : x.Status # StatusFailed)

\* a faulty variant: the results of a level are put in front of the list
prependResults(trs, res) == res \o trs

\* runner.run: taskResults = append(taskResults, results...)
appendResults(trs, res) == trs \o res

\* runLevel returns once wg.Wait() does; run appends the level's results
WaitLevel ==
    /\ pc = "wait"
    /\ \A t \in TaskIds : InCurLevel(t) => wpc[t] = "returned"
    /\ runErr' = firstError(1, levelResults)
    /\ taskResults' = appendResults(taskResults, levelResults)
    /\ pc' = "afterLevel"
    /\ UNCHANGED <<tasks, planTasks, config, ret, levels, li, results, failed,
                   mu, levelResults, wpc, attempt, result, err, tr, events,
                   planEvents, bodyCalls, guardCalls, reason>>
    /\ UNCHANGED opVars
    /\ UNCHANGED callerVars

\* a faulty variant: the abort path returns without calling after-plan
CallAfterLevelAbortSilently ==
    /\ pc = "afterLevel"
    /\ planEvents' = Append(planEvents,
           [ev |-> "after-level", level |-> li, results |-> levelResults])
    /\ IF ~runErr.isNil
       THEN /\ pc' = "returned"
            /\ li' = li
            /\ ret' = [done |-> TRUE, isNil |-> FALSE, tasks |-> taskResults,
                       err |-> runErr]
       ELSE /\ li' = li + 1
            /\ pc' = IF li + 1 < Len(levels) THEN "beforeLevel" ELSE "afterPlan"
            /\ UNCHANGED ret
    /\ UNCHANGED <<tasks, planTasks, config, levels, results, failed, mu,
                   taskResults, levelResults, wpc, attempt, result, err, tr,
                   events, bodyCalls, guardCalls, runErr, reason>>
    /\ UNCHANGED opVars
    /\ UNCHANGED callerVars

\* runner.run: r.callAfterLevel(i, results), then abort or go on
CallAfterLevel ==
    /\ pc = "afterLevel"
    /\ planEvents' = Append(planEvents,
           [ev |-> "after-level", level |-> li, results |-> levelResults])
    /\ IF ~runErr.isNil
       THEN /\ pc' = "afterPlan"
            /\ li' = li
       ELSE /\ li' = li + 1
            /\ pc' = IF li + 1 < Len(levels) THEN "beforeLevel" ELSE "afterPlan"
    /\ UNCHANGED <<tasks, planTasks, config, ret, levels, results, failed, mu,
                   taskResults, levelResults, wpc, attempt, result, err, tr,
                   events, bodyCalls, guardCalls, runErr, reason>>
    /\ UNCHANGED opVars
    /\ UNCHANGED callerVars

\* runner.run: build the Report, r.callAfterPlan(report), return
CallAfterPlan ==
    /\ pc = "afterPlan"
    /\ planEvents' = Append(planEvents,
           [ev |-> "after-plan", tasks |-> taskResults])
    /\ ret' = [done |-> TRUE, isNil |-> FALSE, tasks |-> taskResults,
               err |-> runErr]
    /\ pc' = "returned"
    /\ UNCHANGED <<tasks, planTasks, config, levels, li, results, failed, mu,
                   taskResults, levelResults, wpc, attempt, result, err, tr,
                   events, bodyCalls, guardCalls, runErr, reason>>
    /\ UNCHANGED opVars
    /\ UNCHANGED callerVars

(***************************************************************************)
(* runner.go runTask: one worker goroutine per task of the level.  A       *)
(* section between r.mu.Lock() and r.mu.Unlock() that calls no user code   *)
(* is one step, taken when the mutex is free; the section that calls the   *)
(* guard holds the mutex over two steps.  A worker's locals are reset to   *)
(* their zero values once they are dead.                                   *)
(***************************************************************************)
\* a faulty variant: the sections are entered without waiting for the mutex
lockSkipped == TRUE

\* r.mu.Lock() returns: no worker holds the mutex
lockReturns == mu = 0

\* a faulty variant: the worker returns from the guard without unlocking
afterUnlockMissing(t) == t

\* the holder of the mutex after worker t has called r.mu.Unlock(): none
afterUnlock(t) == 0

Skipped(t) == TaskResult(tasks[t].name, StatusSkipped, FALSE, NilErr)

\* a faulty variant: the custom guard is tried before the change gate
afterDepCheckGuardFirst(t) ==
    IF tasks[t].guard THEN "guard"
    ELSE IF tasks[t].requiresChange THEN "changeGate"
    ELSE "beforeTask"

\* where runTask goes after the dependency check: `if t.requiresChange`,
\* `if t.guard != nil`, else r.callBeforeTask
afterDepCheck(t) ==
    IF tasks[t].requiresChange THEN "changeGate"
    ELSE IF tasks[t].guard THEN "guard"
    ELSE "beforeTask"

\* where runTask goes after the change gate
afterChangeGate(t) == IF tasks[t].guard THEN "guard" ELSE "beforeTask"

\* runTask: the loop over t.deps testing r.failed[dep.name]
depFailed(t) ==
    \E i \in 1..Len(tasks[t].deps) : tasks[tasks[t].deps[i]].name \in failed

\* runTask: "Skip if any dependency failed"
DepCheck(t) ==
    /\ pc = "wait" /\ wpc[t] = "depCheck"
    /\ lockReturns
    /\ IF depFailed(t)
       THEN /\ failed' = failed \cup {tasks[t].name}
            /\ tr' = [tr EXCEPT ![t] = Skipped(t)]
            /\ reason' = [reason EXCEPT ![t] = "dependency failed"]
            /\ wpc' = [wpc EXCEPT ![t] = "onSkip"]
       ELSE /\ wpc' = [wpc EXCEPT ![t] = afterDepCheck(t)]
            /\ UNCHANGED <<failed, tr, reason>>
    /\ UNCHANGED <<tasks, planTasks, config, pc, ret, levels, li, results, mu,
                   taskResults, levelResults, attempt, result, err, events,
                   planEvents, bodyCalls, guardCalls, runErr>>
    /\ UNCHANGED opVars
    /\ UNCHANGED callerVars

\* a faulty variant: any recorded Result counts, changed or not
anyRecorded(t) ==
    \E i \in 1..Len(tasks[t].deps) :
        ~Get(results, tasks[tasks[t].deps[i]].name).isNil

\* runTask: anyChanged of the `if t.requiresChange` block
anyChanged(t) ==
    \E i \in 1..Len(tasks[t].deps) :
        LET res == Get(results, tasks[tasks[t].deps[i]].name)
        IN  ~res.isNil /\ res.Changed

\* runTask: the body of `if t.requiresChange { ... }`
ChangeGate(t) ==
    /\ pc = "wait" /\ wpc[t] = "changeGate"
    /\ lockReturns
    /\ IF ~anyChanged(t)
       THEN /\ tr' = [tr EXCEPT ![t] = Skipped(t)]
            /\ reason' = [reason EXCEPT ![t] = "no dependencies changed"]
            /\ wpc' = [wpc EXCEPT ![t] = "onSkip"]
       ELSE /\ wpc' = [wpc EXCEPT ![t] = afterChangeGate(t)]
            /\ UNCHANGED <<tr, reason>>
    /\ UNCHANGED <<tasks, planTasks, config, pc, ret, levels, li, results,
                   failed, mu, taskResults, levelResults, attempt, result, err,
                   events, planEvents, bodyCalls, guardCalls, runErr>>
    /\ UNCHANGED opVars
    /\ UNCHANGED callerVars

\* runTask: `if t.guard != nil { r.mu.Lock(); shouldRun := t.guard(` -- the
\* guard is entered with the mutex held
GuardLock(t) ==
    /\ pc = "wait" /\ wpc[t] = "guard"
    /\ lockReturns
    /\ mu' = t
    /\ guardCalls' = [guardCalls EXCEPT ![t] = @ + 1]
    /\ wpc' = [wpc EXCEPT ![t] = "inGuard"]
    /\ UNCHANGED <<tasks, planTasks, config, pc, ret, levels, li, results,
                   failed, taskResults, levelResults, attempt, result, err, tr,
                   events, planEvents, bodyCalls, runErr, reason>>
    /\ UNCHANGED opVars
    /\ UNCHANGED callerVars

\* runTask: the guard returns shouldRun (it is the caller's code and may
\* return either value); r.mu.Unlock(); `if !shouldRun`
GuardEval(t, shouldRun) ==
    /\ pc = "wait" /\ wpc[t] = "inGuard"
    /\ mu' = afterUnlock(t)
    /\ IF ~shouldRun
       THEN /\ tr' = [tr EXCEPT ![t] = Skipped(t)]
            /\ reason' = [reason EXCEPT ![t] = "guard returned false"]
            /\ wpc' = [wpc EXCEPT ![t] = "onSkip"]
       ELSE /\ wpc' = [wpc EXCEPT ![t] = "beforeTask"]
            /\ UNCHANGED <<tr, reason>>
    /\ UNCHANGED <<tasks, planTasks, config, pc, ret, levels, li, results,
                   failed, taskResults, levelResults, attempt, result, err,
                   events, planEvents, bodyCalls, guardCalls, runErr>>
    /\ UNCHANGED opVars
    /\ UNCHANGED callerVars

\* a faulty variant: a skip path that calls on-skip and then falls through
\* to the run path instead of calling after-task and returning
CallOnSkipFallThrough(t) ==
    /\ pc = "wait" /\ wpc[t] = "onSkip"
    /\ events' = [events EXCEPT ![t] =
                     Append(@, [ev |-> "on-skip", reason |-> reason[t]])]
    /\ reason' = [reason EXCEPT ![t] = ""]
    /\ wpc' = [wpc EXCEPT ![t] = "beforeTask"]
    /\ UNCHANGED <<tasks, planTasks, config, pc, ret, levels, li, results,
                   failed, mu, taskResults, levelResults, attempt, result, err,
                   tr, planEvents, bodyCalls, guardCalls, runErr>>
    /\ UNCHANGED opVars
    /\ UNCHANGED callerVars

\* runTask: r.callOnSkip(t, reason) on any of the three skip paths
CallOnSkip(t) ==
    /\ pc = "wait" /\ wpc[t] = "onSkip"
    /\ events' = [events EXCEPT ![t] =
                     Append(@, [ev |-> "on-skip", reason |-> reason[t]])]
    /\ reason' = [reason EXCEPT ![t] = ""]
    /\ wpc' = [wpc EXCEPT ![t] = "afterTask"]
    /\ UNCHANGED <<tasks, planTasks, config, pc, ret, levels, li, results,
                   failed, mu, taskResults, levelResults, attempt, result, err,
                   tr, planEvents, bodyCalls, guardCalls, runErr>>
    /\ UNCHANGED opVars
    /\ UNCHANGED callerVars

\* runTask: r.callBeforeTask(t), strategy and maxAttempts, and the first
\* iteration of the loop calls the body (t.fn or r.executeOp) if there is one
CallBeforeTask(t) ==
    /\ pc = "wait" /\ wpc[t] = "beforeTask"
    /\ events' = [events EXCEPT ![t] = Append(@, [ev |-> "before-task"])]
    /\ attempt' = [attempt EXCEPT ![t] = 0]
    /\ IF 0 < maxAttempts(t)
       THEN /\ wpc' = [wpc EXCEPT ![t] = "body"]
            /\ bodyCalls' = [bodyCalls EXCEPT ![t] = @ + 1]
       ELSE /\ wpc' = [wpc EXCEPT ![t] = "finish"]
            /\ UNCHANGED bodyCalls
    /\ UNCHANGED <<tasks, planTasks, config, pc, ret, levels, li, results,
                   failed, mu, taskResults, levelResults, result, err, tr,
                   planEvents, guardCalls, runErr, reason>>
    /\ UNCHANGED opVars
    /\ UNCHANGED callerVars

\* runTask: `if attempt < maxAttempts-1` after a failed attempt
retryFollows(t) == attempt[t] < maxAttempts(t) - 1

\* a faulty variant: the 0-based loop index is passed as it is
retryNumberZeroBased(t) == attempt[t]

\* runTask: the attempt number handed to r.callOnRetry
retryNumber(t) == attempt[t] + 1

\* the body returns (res, e): any pair the caller's function can return;
\* then `if err == nil { break }` and `if attempt < maxAttempts-1`.  With a
\* non-nil error `result` is never read again, so it is kept nil.
BodyReturn(t, res, fails) ==
    /\ pc = "wait" /\ wpc[t] = "body"
    /\ tasks[t].op = NoOp
    /\ result' = [result EXCEPT ![t] = IF fails THEN NilResult ELSE res]
    /\ err' = [err EXCEPT ![t] = IF fails THEN BodyErr(t, attempt[t]) ELSE NilErr]
    /\ wpc' = [wpc EXCEPT ![t] =
                  IF ~fails THEN "finish"
                  ELSE IF retryFollows(t) THEN "onRetry"
                  ELSE "finish"]
    /\ UNCHANGED <<tasks, planTasks, config, pc, ret, levels, li, results,
                   failed, mu, taskResults, levelResults, attempt, tr, events,
                   planEvents, bodyCalls, guardCalls, runErr, reason>>
    /\ UNCHANGED opVars
    /\ UNCHANGED callerVars

\* runTask: r.callOnRetry(t, attempt+1, err); the next iteration calls the
\* body again
CallOnRetry(t) ==
    /\ pc = "wait" /\ wpc[t] = "onRetry"
    /\ events' = [events EXCEPT ![t] =
                     Append(@, [ev |-> "on-retry", attempt |-> retryNumber(t),
                                err |-> err[t]])]
    /\ attempt' = [attempt EXCEPT ![t] = @ + 1]
    /\ bodyCalls' = [bodyCalls EXCEPT ![t] = @ + 1]
    /\ wpc' = [wpc EXCEPT ![t] = "body"]
    /\ UNCHANGED <<tasks, planTasks, config, pc, ret, levels, li, results,
                   failed, mu, taskResults, levelResults, result, err, tr,
                   planEvents, guardCalls, runErr, reason>>
    /\ resp' = [resp EXCEPT ![t] = NoResp]
    /\ UNCHANGED <<ctxDone, jobCreates>>
    /\ UNCHANGED callerVars

\* a faulty variant: a task that returned a Result is reported CHANGED
statusOfAnyResult(res) == StatusChanged

\* runTask: status := StatusUnchanged; if result.Changed { status =
\* StatusChanged }
statusOf(res) == IF res.Changed THEN StatusChanged ELSE StatusUnchanged

\* a faulty variant: the map is replaced by one that holds the new entry only
storeResultAlone(r, name, res) == (name :> res)

\* runTask: r.results[t.name] = result
storeResult(r, name, res) == (name :> res) @@ r

\* runTask after the loop: record the failure, or store the result and
\* read result.Changed, which panics on a nil result and ends the process
Finish(t) ==
    /\ pc = "wait" /\ wpc[t] = "finish"
    /\ lockReturns
    /\ IF ~err[t].isNil
       THEN /\ failed' = failed \cup {tasks[t].name}
            /\ tr' = [tr EXCEPT ![t] =
                         TaskResult(tasks[t].name, StatusFailed, FALSE, err[t])]
            /\ wpc' = [wpc EXCEPT ![t] = "afterTask"]
            /\ UNCHANGED <<results, pc>>
       ELSE /\ results' = storeResult(results, tasks[t].name, result[t])
            /\ IF result[t].isNil
               THEN /\ pc' = "panic"
                    /\ wpc' = [wpc EXCEPT ![t] = "panic"]
                    /\ UNCHANGED tr
               ELSE /\ tr' = [tr EXCEPT ![t] =
                                TaskResult(tasks[t].name, statusOf(result[t]),
                                           result[t].Changed, NilErr)]
                    /\ wpc' = [wpc EXCEPT ![t] = "afterTask"]
                    /\ UNCHANGED pc
            /\ UNCHANGED failed
    /\ attempt' = [attempt EXCEPT ![t] = 0]
    /\ result' = [result EXCEPT ![t] = NilResult]
    /\ err' = [err EXCEPT ![t] = NilErr]
    /\ UNCHANGED <<tasks, planTasks, config, ret, levels, li, mu, taskResults,
                   levelResults, events, planEvents, bodyCalls, guardCalls,
                   runErr, reason>>
    /\ resp' = [resp EXCEPT ![t] = NoResp]
    /\ UNCHANGED <<ctxDone, jobCreates>>
    /\ UNCHANGED callerVars

\* runTask: r.callAfterTask(t, tr); return tr; runLevel: results[i] = tr
CallAfterTask(t) ==
    /\ pc = "wait" /\ wpc[t] = "afterTask"
    /\ events' = [events EXCEPT ![t] =
                     Append(@, [ev |-> "after-task", result |-> tr[t]])]
    /\ levelResults' = [levelResults EXCEPT ![PosInLevel(t)] = tr[t]]
    /\ tr' = [tr EXCEPT ![t] = NoTaskResult]
    /\ wpc' = [wpc EXCEPT ![t] = "returned"]
    /\ UNCHANGED <<tasks, planTasks, config, pc, ret, levels, li, results,
                   failed, mu, taskResults, attempt, result, err, planEvents,
                   bodyCalls, guardCalls, runErr, reason>>
    /\ UNCHANGED opVars
    /\ UNCHANGED callerVars

(***************************************************************************)
(* Declarative tasks: plan.go Task, runner.go executeOp and pollJob.  The  *)
(* client is generated code outside the package: a call of it returns an   *)
(* error or a response with any HTTP status and, for a job, any status     *)
(* string, whether or not the context is done.  A call and what the code   *)
(* does with its answer, up to the next call or the return, are one step;  *)
(* a context cancelled during the call is a context cancelled before it.   *)
(***************************************************************************)
\* operations explored: a read-only one and a write
Ops == {"node.hostname.get", "network.dns.update"}

\* how many tasks a plan of declarative tasks explored holds
MaxOpPlan == 2

\* Plan.Task(name, op)
PlanOpTask(name, op) ==
    /\ pc = "build"
    /\ Len(tasks) < MaxOpPlan
    /\ tasks' = Append(tasks, NewTask(name, op))
    /\ planTasks' = Append(planTasks, Len(tasks) + 1)
    /\ UNCHANGED <<config, pc>>
    /\ UNCHANGED runVars

\* http.StatusCreated, http.StatusOK and a status that is neither
StatusCreated == 201
StatusOK      == 200
StatusOther   == 500

TransportErr == [err |-> TRUE, code |-> 0, status |-> ""]
Response(code, status) == [err |-> FALSE, code |-> code, status |-> status]

\* what client.Job.Create can return
CreateOutcomes ==
    {TransportErr, Response(StatusCreated, ""), Response(StatusOther, "")}

\* the job statuses explored: the two pollJob acts on, one it does not,
\* and a response without status
JobStatuses == {"completed", "failed", "processing", ""}

\* what client.Job.Get can return
GetOutcomes ==
    {TransportErr, Response(StatusOther, "")}
        \cup {Response(StatusOK, st) : st \in JobStatuses}

\* the errors of executeOp and pollJob, by what produced them
OpErr(t, cause) ==
    [isNil |-> FALSE, task |-> t, attempt |-> attempt[t], cause |-> cause]

\* runTask: executeOp has returned (res, e): `if err == nil { break }` and
\* `if attempt < maxAttempts-1`
opReturns(t, res, e) ==
    /\ result' = [result EXCEPT ![t] = res]
    /\ err' = [err EXCEPT ![t] = e]
    /\ wpc' = [wpc EXCEPT ![t] =
                  IF e.isNil THEN "finish"
                  ELSE IF retryFollows(t) THEN "onRetry"
                  ELSE "finish"]

\* what executeOp does with the answer r of client.Job.Create: an error, or
\* "" when it goes on to pollJob
createError(r) ==
    IF r.err THEN "create job"
    ELSE IF r.code # StatusCreated THEN "create job: unexpected status"
    ELSE ""

\* executeOp up to the call of pollJob
ExecuteOp(t, r) ==
    /\ pc = "wait" /\ wpc[t] = "body"
    /\ tasks[t].op # NoOp
    /\ IF ~config.client
       THEN /\ opReturns(t, NilResult, OpErr(t, "requires an OSAPI client"))
            /\ UNCHANGED <<resp, jobCreates>>
       ELSE /\ jobCreates' = [jobCreates EXCEPT ![t] = @ + 1]
            /\ resp' = [resp EXCEPT ![t] = r]
            /\ IF createError(r) # ""
               THEN opReturns(t, NilResult, OpErr(t, createError(r)))
               ELSE /\ wpc' = [wpc EXCEPT ![t] = "select"]
                    /\ UNCHANGED <<result, err>>
    /\ UNCHANGED <<tasks, planTasks, config, pc, ret, levels, li, results,
                   failed, mu, taskResults, levelResults, attempt, tr, events,
                   planEvents, bodyCalls, guardCalls, runErr, reason, ctxDone>>
    /\ UNCHANGED callerVars

\* a faulty variant: the cancelled poll loop returns without an error
PollCancelledSilently(t) ==
    /\ pc = "wait" /\ wpc[t] = "select"
    /\ ctxDone
    /\ opReturns(t, NilResult, NilErr)
    /\ UNCHANGED <<tasks, planTasks, config, pc, ret, levels, li, results,
                   failed, mu, taskResults, levelResults, attempt, tr, events,
                   planEvents, bodyCalls, guardCalls, runErr, reason>>
    /\ UNCHANGED opVars
    /\ UNCHANGED callerVars

\* pollJob: `case <-ctx.Done(): return nil, ctx.Err()`
PollCancelled(t) ==
    /\ pc = "wait" /\ wpc[t] = "select"
    /\ ctxDone
    /\ opReturns(t, NilResult, OpErr(t, "context canceled"))
    /\ UNCHANGED <<tasks, planTasks, config, pc, ret, levels, li, results,
                   failed, mu, taskResults, levelResults, attempt, tr, events,
                   planEvents, bodyCalls, guardCalls, runErr, reason>>
    /\ UNCHANGED opVars
    /\ UNCHANGED callerVars

\* a faulty variant: a job that is not completed is taken for failed
pollVerdictImpatient(r) ==
    IF r.err THEN "poll job"
    ELSE IF r.code # StatusOK THEN "poll job: unexpected status"
    ELSE IF r.status = "completed" THEN "completed"
    ELSE "job failed"

\* what pollJob does with the answer r of client.Job.Get: "" when it polls
\* again, "completed" when it returns a Result, else the error it returns
pollVerdict(r) ==
    IF r.err THEN "poll job"
    ELSE IF r.code # StatusOK THEN "poll job: unexpected status"
    ELSE IF r.status = "completed" THEN "completed"
    ELSE IF r.status = "failed" THEN "job failed"
    ELSE ""

\* pollJob: `return &Result{Changed: true, Data: data}, nil`
completedResult(op) == Result(TRUE)

\* pollJob: `case <-ticker.C:` -- one poll of the job
PollJob(t, r) ==
    /\ pc = "wait" /\ wpc[t] = "select"
    /\ resp' = [resp EXCEPT ![t] = r]
    /\ IF pollVerdict(r) = ""
       THEN UNCHANGED <<result, err, wpc>>
       ELSE IF pollVerdict(r) = "completed"
            THEN opReturns(t, completedResult(tasks[t].op), NilErr)
            ELSE opReturns(t, NilResult, OpErr(t, pollVerdict(r)))
    /\ UNCHANGED <<tasks, planTasks, config, pc, ret, levels, li, results,
                   failed, mu, taskResults, levelResults, attempt, tr, events,
                   planEvents, bodyCalls, guardCalls, runErr, reason, ctxDone,
                   jobCreates>>
    /\ UNCHANGED callerVars

\* the caller cancels the context it handed to Run (before Run is called
\* nothing reads it)
Cancel ==
    /\ pc \notin {"build", "returned", "panic"}
    /\ ~ctxDone
    /\ ctxDone' = TRUE
    /\ UNCHANGED <<tasks, planTasks, config, pc, ret, levels, li, results,
                   failed, mu, taskResults, levelResults, wpc, attempt, result,
                   err, tr, events, planEvents, bodyCalls, guardCalls, runErr,
                   reason, resp, jobCreates>>
    /\ UNCHANGED callerVars

(***************************************************************************)
(* Specification.                                                          *)
(***************************************************************************)
\* what a body can return: (result, err == nil or not)
Outcomes == {<<Result(TRUE), FALSE>>, <<Result(FALSE), FALSE>>,
             <<NilResult, FALSE>>, <<NilResult, TRUE>>, <<Result(TRUE), TRUE>>}

Next ==
    \/ \E n \in NameChoices : PlanTask(n)
    \/ \E t \in 1..Len(tasks), n \in NameChoices : DependsOnLoose(t, n)
    \/ \E t \in 1..Len(tasks), d \in 1..Len(tasks) : DependsOn(t, d)
    \/ \E t \in 1..Len(tasks) : OnlyIfChanged(t)
    \/ \E t \in 1..Len(tasks) : When(t)
    \/ \E t \in 1..Len(tasks), s \in Strategies : OnError(t, s)
    \/ Run
    \/ CallBeforePlan
    \/ CallBeforeLevel
    \/ RunLevel
    \/ WaitLevel
    \/ CallAfterLevel
    \/ CallAfterPlan
    \/ \E t \in TaskIds : DepCheck(t)
    \/ \E t \in TaskIds : ChangeGate(t)
    \/ \E t \in TaskIds : GuardLock(t)
    \/ \E t \in TaskIds, shouldRun \in BOOLEAN : GuardEval(t, shouldRun)
    \/ \E t \in TaskIds : CallOnSkip(t)
    \/ \E t \in TaskIds : CallBeforeTask(t)
    \/ \E t \in TaskIds, o \in Outcomes : BodyReturn(t, o[1], o[2])
    \/ \E t \in TaskIds : CallOnRetry(t)
    \/ \E t \in TaskIds : Finish(t)
    \/ \E t \in TaskIds : CallAfterTask(t)

Spec == Init /\ [][Next]_vars

\* the steps of a run: those of runner.run and of the workers of a level
RunStep ==
    \/ CallBeforePlan
    \/ CallBeforeLevel
    \/ RunLevel
    \/ WaitLevel
    \/ CallAfterLevel
    \/ CallAfterPlan
    \/ \E t \in TaskIds : DepCheck(t)
    \/ \E t \in TaskIds : ChangeGate(t)
    \/ \E t \in TaskIds : GuardLock(t)
    \/ \E t \in TaskIds, shouldRun \in BOOLEAN : GuardEval(t, shouldRun)
    \/ \E t \in TaskIds : CallOnSkip(t)
    \/ \E t \in TaskIds : CallBeforeTask(t)
    \/ \E t \in TaskIds, o \in Outcomes : BodyReturn(t, o[1], o[2])
    \/ \E t \in TaskIds : CallOnRetry(t)
    \/ \E t \in TaskIds : Finish(t)
    \/ \E t \in TaskIds : CallAfterTask(t)

\* every body, guard and hook returns, and the scheduler runs a goroutine
\* that can run: while a step of the run is possible, one is taken
FairSpec == Spec /\ WF_vars(RunStep)

(***************************************************************************)
(* Plans of declarative tasks, run under a context that may be cancelled,  *)
(* with or without a client.  The plans explored have dependencies         *)
(* between their tasks, only-if-changed and strategies.                    *)
(***************************************************************************)
OpInit ==
    /\ InitRun
    /\ config \in {NewPlan(c, opts) : c \in BOOLEAN, opts \in PlanOptions}

OpNext ==
    \/ \E n \in NameChoices, op \in Ops : PlanOpTask(n, op)
    \/ \E t \in 1..Len(tasks), d \in 1..Len(tasks) : DependsOn(t, d)
    \/ \E t \in 1..Len(tasks) : OnlyIfChanged(t)
    \/ \E t \in 1..Len(tasks), s \in Strategies : OnError(t, s)
    \/ Run
    \/ CallBeforePlan
    \/ CallBeforeLevel
    \/ RunLevel
    \/ WaitLevel
    \/ CallAfterLevel
    \/ CallAfterPlan
    \/ \E t \in TaskIds : DepCheck(t)
    \/ \E t \in TaskIds : ChangeGate(t)
    \/ \E t \in TaskIds : CallOnSkip(t)
    \/ \E t \in TaskIds : CallBeforeTask(t)
    \/ \E t \in TaskIds, r \in CreateOutcomes : ExecuteOp(t, r)
    \/ \E t \in TaskIds, r \in GetOutcomes : PollJob(t, r)
    \/ \E t \in TaskIds : PollCancelled(t)
    \/ \E t \in TaskIds : CallOnRetry(t)
    \/ \E t \in TaskIds : Finish(t)
    \/ \E t \in TaskIds : CallAfterTask(t)
    \/ Cancel

OpSpec == OpInit /\ [][OpNext]_vars

\* pollJob's select: when several cases are ready Go takes one of them at
\* random, and the ticker is ready only once per poll interval, so a poll
\* loop whose context is done does not take the ticker's case for ever
OpFairSpec == OpSpec /\ \A t \in TaskIds : WF_vars(PollCancelled(t))

(***************************************************************************)
(* Plan.Levels and Plan.Explain, called by the owner of the plan.  The     *)
(* caller keeps what the last call returned, the plan it was called on,    *)
(* and whether the call before it was made on that same plan.              *)
(***************************************************************************)
\* one line of Explain: "  name [kind] <- deps (flags)"
explainTask(t) ==
    [name  |-> tasks[t].name,
     kind  |-> IF tasks[t].op = NoOp THEN "fn" ELSE "op",
     deps  |-> [j \in 1..Len(tasks[t].deps) |-> tasks[tasks[t].deps[j]].name],
     flags |-> (IF tasks[t].requiresChange THEN <<"only-if-changed">> ELSE <<>>)
               \o (IF tasks[t].guard THEN <<"when">> ELSE <<>>)]

\* Plan.Explain: the text, as the values it is formatted from
Explain ==
    IF Levels.err # "nil" THEN [invalid |-> TRUE, err |-> Levels.err]
    ELSE [invalid |-> FALSE,
          ntasks  |-> Len(planTasks),
          nlevels |-> Len(Levels.levels),
          levels  |-> [k \in 1..Len(Levels.levels) |->
                         [parallel |-> Len(Levels.levels[k]) > 1,
                          tasks |-> [i \in 1..Len(Levels.levels[k]) |->
                                       explainTask(Levels.levels[k][i])]]]]

\* what the caller keeps of a call that returned out
callReturned(last, out) ==
    [called |-> TRUE, tasks |-> tasks, planTasks |-> planTasks, out |-> out,
     again |-> last.called /\ last.tasks = tasks
               /\ last.planTasks = planTasks]

\* a Levels that reverses p.tasks in place before it levelizes
CallLevelsReordering ==
    /\ pc \in {"build", "beforePlan", "returned"}
    /\ planTasks' = [i \in 1..Len(planTasks) |->
                       planTasks[Len(planTasks) + 1 - i]]
    /\ lastLevels' = callReturned(lastLevels, Levels)
    /\ UNCHANGED <<tasks, config, pc, lastExplain, firstReport>>
    /\ UNCHANGED <<ret, levels, li, results, failed, mu, taskResults,
                   levelResults, wpc, attempt, result, err, tr, events,
                   planEvents, bodyCalls, guardCalls, runErr, reason>>
    /\ UNCHANGED opVars

\* levels, err := p.Levels()
CallLevels ==
    /\ pc \in {"build", "beforePlan", "returned"}
    /\ lastLevels' = callReturned(lastLevels, Levels)
    /\ UNCHANGED <<tasks, planTasks, config, pc, lastExplain, firstReport>>
    /\ UNCHANGED <<ret, levels, li, results, failed, mu, taskResults,
                   levelResults, wpc, attempt, result, err, tr, events,
                   planEvents, bodyCalls, guardCalls, runErr, reason>>
    /\ UNCHANGED opVars

\* text := p.Explain()
CallExplain ==
    /\ pc \in {"build", "beforePlan", "returned"}
    /\ lastExplain' = callReturned(lastExplain, Explain)
    /\ UNCHANGED <<tasks, planTasks, config, pc, lastLevels, firstReport>>
    /\ UNCHANGED <<ret, levels, li, results, failed, mu, taskResults,
                   levelResults, wpc, attempt, result, err, tr, events,
                   planEvents, bodyCalls, guardCalls, runErr, reason>>
    /\ UNCHANGED opVars

\* the caller has finished building the plan only when it asks
Building == ~lastLevels.called /\ ~lastExplain.called

\* plans of at most MaxOpPlan tasks of both kinds, built and then asked for
\* their levels and their text, any number of times: before Run, after Run
\* has levelized them, and after Run has returned
QueryNext ==
    \/ \E n \in NameChoices :
          Building /\ Len(tasks) < MaxOpPlan /\ PlanTask(n)
    \/ \E n \in NameChoices, op \in Ops : Building /\ PlanOpTask(n, op)
    \/ \E t \in 1..Len(tasks), n \in NameChoices :
          Building /\ DependsOnLoose(t, n)
    \/ \E t \in 1..Len(tasks), d \in 1..Len(tasks) :
          Building /\ DependsOn(t, d)
    \/ \E t \in 1..Len(tasks) : Building /\ OnlyIfChanged(t)
    \/ \E t \in 1..Len(tasks) : Building /\ When(t)
    \/ CallLevels
    \/ CallExplain
    \/ Run

QuerySpec == Init /\ [][QueryNext]_vars

(***************************************************************************)
(* The same plan run twice.  The bodies and the guards are deterministic:  *)
(* every body is `return &Result{Changed: true}, nil` and every guard is   *)
(* `func(r Results) bool { return r.Get(first) != nil }`, where first is   *)
(* the name of the first task of the plan.                                 *)
(***************************************************************************)
\* the guard of task t, applied to the Results map it is handed
guardFn(t, r) == ~Get(r, tasks[planTasks[1]].name).isNil

\* a faulty variant: the second Run reuses the runner of the first, with its
\* Results map and its failed-set
RunAgainWithSameRunner ==
    /\ pc = "returned"
    /\ ~firstReport.done
    /\ firstReport' = ret
    /\ IF runValidateFails
       THEN /\ ret' = [done |-> TRUE, isNil |-> TRUE, tasks |-> <<>>,
                       err |-> ValidationErr]
            /\ pc' = "returned"
            /\ levels' = <<>>
       ELSE /\ ret' = NoReturn
            /\ levels' = levelize
            /\ pc' = "beforePlan"
    /\ li' = 0
    /\ taskResults' = <<>>
    /\ levelResults' = <<>>
    /\ wpc' = [t \in TaskIds |-> "idle"]
    /\ events' = [t \in TaskIds |-> <<>>]
    /\ planEvents' = <<>>
    /\ bodyCalls' = [t \in TaskIds |-> 0]
    /\ guardCalls' = [t \in TaskIds |-> 0]
    /\ runErr' = NilErr
    /\ UNCHANGED <<tasks, planTasks, config, results, failed, mu, attempt,
                   result, err, tr, reason, lastLevels, lastExplain>>
    /\ UNCHANGED opVars

\* report, err := plan.Run(ctx) a second time: the caller keeps the first
\* Report; Run validates again, makes a new runner and levelizes again.
\* The events and the call counts kept are those of the current run.
RunAgain ==
    /\ pc = "returned"
    /\ ~firstReport.done
    /\ firstReport' = ret
    /\ IF runValidateFails
       THEN /\ ret' = [done |-> TRUE, isNil |-> TRUE, tasks |-> <<>>,
                       err |-> ValidationErr]
            /\ pc' = "returned"
            /\ levels' = <<>>
       ELSE /\ ret' = NoReturn
            /\ levels' = levelize
            /\ pc' = "beforePlan"
    /\ results' = EmptyMap
    /\ failed' = {}
    /\ li' = 0
    /\ taskResults' = <<>>
    /\ levelResults' = <<>>
    /\ wpc' = [t \in TaskIds |-> "idle"]
    /\ events' = [t \in TaskIds |-> <<>>]
    /\ planEvents' = <<>>
    /\ bodyCalls' = [t \in TaskIds |-> 0]
    /\ guardCalls' = [t \in TaskIds |-> 0]
    /\ runErr' = NilErr
    /\ UNCHANGED <<tasks, planTasks, config, mu, attempt, result, err, tr,
                   reason, lastLevels, lastExplain>>
    /\ UNCHANGED opVars

DetNext ==
    \/ \E n \in NameChoices : PlanTask(n)
    \/ \E t \in 1..Len(tasks), d \in 1..Len(tasks) : DependsOn(t, d)
    \/ \E t \in 1..Len(tasks) : OnlyIfChanged(t)
    \/ \E t \in 1..Len(tasks) : When(t)
    \/ Run
    \/ CallBeforePlan
    \/ CallBeforeLevel
    \/ RunLevel
    \/ WaitLevel
    \/ CallAfterLevel
    \/ CallAfterPlan
    \/ \E t \in TaskIds : DepCheck(t)
    \/ \E t \in TaskIds : ChangeGate(t)
    \/ \E t \in TaskIds : GuardLock(t)
    \/ \E t \in TaskIds : GuardEval(t, guardFn(t, results))
    \/ \E t \in TaskIds : CallOnSkip(t)
    \/ \E t \in TaskIds : CallBeforeTask(t)
    \/ \E t \in TaskIds : BodyReturn(t, Result(TRUE), FALSE)
    \/ \E t \in TaskIds : Finish(t)
    \/ \E t \in TaskIds : CallAfterTask(t)
    \/ RunAgain

DetSpec == Init /\ [][DetNext]_vars

(***************************************************************************)
(* Plans of at most MaxOpPlan function tasks whose bodies and guards may   *)
(* return anything, run twice.                                             *)
(***************************************************************************)
RerunNext ==
    \/ \E n \in NameChoices : Len(tasks) < MaxOpPlan /\ PlanTask(n)
    \/ \E t \in 1..Len(tasks), n \in NameChoices : DependsOnLoose(t, n)
    \/ \E t \in 1..Len(tasks), d \in 1..Len(tasks) : DependsOn(t, d)
    \/ \E t \in 1..Len(tasks) : OnlyIfChanged(t)
    \/ \E t \in 1..Len(tasks) : When(t)
    \/ \E t \in 1..Len(tasks), s \in Strategies : OnError(t, s)
    \/ Run
    \/ CallBeforePlan
    \/ CallBeforeLevel
    \/ RunLevel
    \/ WaitLevel
    \/ CallAfterLevel
    \/ CallAfterPlan
    \/ \E t \in TaskIds : DepCheck(t)
    \/ \E t \in TaskIds : ChangeGate(t)
    \/ \E t \in TaskIds : GuardLock(t)
    \/ \E t \in TaskIds, shouldRun \in BOOLEAN : GuardEval(t, shouldRun)
    \/ \E t \in TaskIds : CallOnSkip(t)
    \/ \E t \in TaskIds : CallBeforeTask(t)
    \/ \E t \in TaskIds, o \in Outcomes : BodyReturn(t, o[1], o[2])
    \/ \E t \in TaskIds : CallOnRetry(t)
    \/ \E t \in TaskIds : Finish(t)
    \/ \E t \in TaskIds : CallAfterTask(t)
    \/ RunAgain

RerunSpec == Init /\ [][RerunNext]_vars

(***************************************************************************)
(* Vocabulary of the properties.                                           *)
(***************************************************************************)
PlanSet == {planTasks[i] : i \in 1..Len(planTasks)}

\* the direct dependencies of task t
DepSet(t) == {tasks[t].deps[i] : i \in 1..Len(tasks[t].deps)}

RECURSIVE ReachN(_, _)
ReachN(S, n) ==
    IF n = 0 THEN S ELSE ReachN(S \cup UNION {DepSet(u) : u \in S}, n - 1)

\* the direct and transitive dependencies of task t
TransDeps(t) == ReachN(DepSet(t), Len(tasks))

\* the dependency graph of the plan contains a cycle
Cyclic == \E t \in PlanSet : \E u \in TransDeps(t) \cup {t} : u \in TransDeps(u)

\* no two tasks of the plan have the same name
UniqueNames ==
    \A i, j \in 1..Len(planTasks) :
        i # j => tasks[planTasks[i]].name # tasks[planTasks[j]].name

\* every dependency of every task on which the plan depends is in the plan
ClosedPlan == \A t \in PlanSet : DepSet(t) \subseteq PlanSet

\* the worker of t has begun / has returned its TaskResult
Begun(t)    == wpc[t] # "idle"
Returned(t) == wpc[t] = "returned"

\* the TaskResult the worker of t returned
Final(t) == events[t][Len(events[t])].result

\* the hook calls of kind e made for task t
EventsOf(t, e) == SelectSeq(events[t], LAMBDA x : x.ev = e)

\* Run returned from runner.run (with a Report)
RunReturned == pc = "returned" /\ ~ret.isNil

\* the entries of a sequence of TaskResults that carry the name of task t
Entries(trs, t) == {i \in 1..Len(trs) : trs[i].Name = tasks[t].name}

(***************************************************************************)
(* C1.  Levels run strictly one after another.                             *)
(***************************************************************************)
\* first sentence of C1: no worker of a later level has begun unless every
\* worker of every earlier level has returned
LevelBarrier ==
    \A t, u \in PlanSet :
        (LevelOf(levels, t) < LevelOf(levels, u) /\ Begun(u)) => Returned(t)

\* C1: levels execute strictly one after another, and consequently the
\* body of a task never starts before each of its dependencies has
\* finished its own body or been skipped (its worker has returned)
C1_BodyAfterDependencies ==
    /\ LevelBarrier
    /\ \A t \in PlanSet :
           bodyCalls[t] > 0 => \A d \in DepSet(t) : Returned(d)

(***************************************************************************)
(* C2.  The level decomposition.                                           *)
(***************************************************************************)
\* the largest of a non-empty set of integers
Max(S) == CHOOSE x \in S : \A y \in S : y <= x

\* the tasks of the plan found at 0-based level k of lv, with multiplicity
Occurrences(lv, t) ==
    {<<k, i>> \in (1..Len(lv)) \X (1..Len(planTasks)) :
        i <= Len(lv[k]) /\ lv[k][i] = t}

\* C2: for every acyclic plan with unique names levelize puts every task
\* in exactly one level; a task without dependencies is at level 0, any
\* other at 1 + the largest level of its dependencies; so every dependency
\* of a task is at a strictly earlier level
C2_LevelIsOnePlusMaxDep ==
    (pc = "build" /\ UniqueNames /\ ~Cyclic) =>
        LET lv == levelize
        IN  \A t \in PlanSet :
              /\ Cardinality(Occurrences(lv, t)) = 1
              /\ DepSet(t) = {} => LevelOf(lv, t) = 0
              /\ DepSet(t) # {} =>
                    /\ \A d \in DepSet(t) :
                          LevelOf(lv, d) >= 0 /\ LevelOf(lv, d) < LevelOf(lv, t)
                    /\ LevelOf(lv, t) = 1 + Max({LevelOf(lv, d) : d \in DepSet(t)})

(***************************************************************************)
(* C3.  Validate.                                                          *)
(***************************************************************************)
\* C3: Validate returns an error if and only if two tasks of the plan have
\* the same name or the dependency graph has a cycle
C3_ValidateIffDuplicateOrCycle ==
    pc = "build" => ((Validate # "nil") <=> (~UniqueNames \/ Cyclic))

(***************************************************************************)
(* C4.  A plan that fails validation is not executed.                      *)
(***************************************************************************)
\* nothing of the run has happened: no body, no guard, no hook call
NothingExecuted ==
    /\ planEvents = <<>>
    /\ \A t \in TaskIds :
          /\ bodyCalls[t] = 0
          /\ guardCalls[t] = 0
          /\ events[t] = <<>>
          /\ wpc[t] = "idle"

\* C4: when Validate fails, Run returns an error and no Report and nothing
\* is executed, and Levels returns an error and no levels
C4_InvalidPlanRunsNothing ==
    Validate # "nil" =>
        /\ Levels.isNil /\ Levels.err # "nil" /\ Levels.levels = <<>>
        /\ pc \in {"build", "returned"}
        /\ NothingExecuted
        /\ pc = "returned" => (ret.done /\ ret.isNil /\ ~ret.err.isNil)

\* Run has returned for a plan with a duplicate name
C4_Witness ==
    /\ pc = "returned"
    /\ ~UniqueNames
    /\ ret.done /\ ret.isNil /\ ~ret.err.isNil

(***************************************************************************)
(* Vocabulary of the run properties.                                       *)
(***************************************************************************)
\* the task of the plan with name n (names are unique in a plan that runs)
TaskNamed(n) == CHOOSE t \in PlanSet : tasks[t].name = n

\* the worker of t has built its TaskResult; that TaskResult's status
Ended(t)     == wpc[t] \in {"afterTask", "returned"}
EndStatus(t) == IF wpc[t] = "afterTask" THEN tr[t].Status ELSE Final(t).Status

\* the body of t has returned an error on its last allowed attempt
HasFailed(t) ==
    \/ wpc[t] = "finish" /\ ~err[t].isNil
    \/ Ended(t) /\ EndStatus(t) = StatusFailed

\* t was skipped with reason r
SkippedFor(t, r) ==
    \/ wpc[t] = "onSkip" /\ reason[t] = r /\ events[t] = <<>>
    \/ /\ Ended(t) /\ EndStatus(t) = StatusSkipped
       /\ events[t][1] = [ev |-> "on-skip", reason |-> r]

\* the number of on-retry hook calls made for t
NumRetries(t) == Len(EventsOf(t, "on-retry"))

\* the attempts the strategy of t allows: n + 1 under retry(n), else 1
Allowed(t) ==
    LET s == effectiveStrategy(t)
    IN  IF s.kind = "retry" THEN s.retryCount + 1 ELSE 1

(***************************************************************************)
(* C5.  Dependents of a failed task are skipped.                           *)
(***************************************************************************)
\* C5: every task the runner considers that has a FAILED task among its
\* direct or transitive dependencies is skipped with reason "dependency
\* failed", is put in the failed-set, and neither its guard nor its body
\* is invoked
C5_DependentsOfFailedAreSkipped ==
    \A t, u \in PlanSet :
        ( /\ t # u /\ t \in TransDeps(u)
          /\ Returned(t) /\ Final(t).Status = StatusFailed
          /\ wpc[u] \notin {"idle", "depCheck"} )
        => /\ SkippedFor(u, "dependency failed")
           /\ tasks[u].name \in failed
           /\ bodyCalls[u] = 0
           /\ guardCalls[u] = 0

(***************************************************************************)
(* C6.  Failures under continue do not fail the run.                       *)
(***************************************************************************)
\* every FAILED TaskResult of the Report belongs to a task whose effective
\* strategy is continue
OnlyContinueFailures ==
    \A i \in 1..Len(ret.tasks) :
        ret.tasks[i].Status = StatusFailed =>
            effectiveStrategy(TaskNamed(ret.tasks[i].Name)).kind = "continue"

\* C6: if every task that ends FAILED has effective strategy continue, Run
\* returns no error and a Report with exactly one TaskResult per plan task
C6_ContinueRunReturnsFullReport ==
    (RunReturned /\ OnlyContinueFailures) =>
        /\ ret.err.isNil
        /\ Len(ret.tasks) = Len(planTasks)
        /\ \A t \in PlanSet : Cardinality(Entries(ret.tasks, t)) = 1

\* a run with a FAILED task under continue has returned, and a task of a
\* later level than the failed one is in the Report
C6_Witness ==
    /\ RunReturned /\ OnlyContinueFailures /\ ret.err.isNil
    /\ \E t, u \in PlanSet :
          /\ Final(t).Status = StatusFailed
          /\ LevelOf(levels, t) < LevelOf(levels, u)
          /\ Final(u).Status = StatusChanged

(***************************************************************************)
(* C7.  A failure under another strategy aborts after its level.           *)
(***************************************************************************)
\* the positions of the level just run that hold a FAILED TaskResult of a
\* task whose effective strategy is not continue
Aborting ==
    {i \in 1..Len(levelResults) :
        /\ levelResults[i].Status = StatusFailed
        /\ effectiveStrategy(CurLevel[i]).kind # "continue"}

Min(S) == CHOOSE x \in S : \A y \in S : x <= y

\* C7: when a level ends with a FAILED task whose strategy is not continue,
\* Run returns the error of the first such task in the level's order and a
\* Report with the TaskResults of all tasks of the levels up to that one,
\* and no task of a later level is considered
C7_AbortReturnsFirstErrorAndPartialReport ==
    /\ \A t, u \in PlanSet :
          ( /\ Returned(t) /\ Final(t).Status = StatusFailed
            /\ effectiveStrategy(t).kind # "continue"
            /\ LevelOf(levels, t) < LevelOf(levels, u) )
          => ( /\ ~Begun(u) /\ events[u] = <<>>
               /\ bodyCalls[u] = 0 /\ guardCalls[u] = 0 )
    /\ (pc = "returned" /\ ret.done /\ li < Len(levels) /\ Aborting # {}) =>
          /\ ~ret.isNil
          /\ ~ret.err.isNil
          /\ ret.err = levelResults[Min(Aborting)].Error
          /\ \A t \in PlanSet :
                IF LevelOf(levels, t) <= li
                THEN /\ Cardinality(Entries(ret.tasks, t)) = 1
                     /\ \A i \in Entries(ret.tasks, t) : ret.tasks[i] = Final(t)
                ELSE /\ Entries(ret.tasks, t) = {}
                     /\ ~Begun(t)
          /\ Len(ret.tasks) =
                Cardinality({t \in PlanSet : LevelOf(levels, t) <= li})

\* Run has returned after a level in which two tasks failed under a
\* strategy other than continue, leaving a later level unrun
C7_Witness ==
    /\ pc = "returned" /\ ret.done /\ ~ret.isNil /\ li < Len(levels)
    /\ Cardinality(Aborting) >= 2
    /\ ret.err = levelResults[Min(Aborting)].Error
    /\ \E u \in PlanSet : LevelOf(levels, u) > li

(***************************************************************************)
(* C8.  StopAll and the tasks that remain.                                 *)
(***************************************************************************)
\* C8: under stop_all, once a task has failed no task whose body had not
\* started at that moment has its body run
C8_StopAllCancelsRemaining ==
    [][ (\E t \in PlanSet :
            HasFailed(t) /\ effectiveStrategy(t).kind = "stop_all")
        => \A u \in TaskIds : bodyCalls[u] = 0 => bodyCalls'[u] = 0 ]_vars

(***************************************************************************)
(* C9.  The number of attempts.                                            *)
(***************************************************************************)
\* C9: under retry(n), n >= 0, the body is invoked sequentially, stops at
\* the first success and is never invoked more than n + 1 times; a success
\* ends the task CHANGED or UNCHANGED after its Result and outside the
\* failed-set; under stop_all and continue the body is invoked exactly once
C9_AttemptsBounded ==
    \A t \in PlanSet :
        (effectiveStrategy(t).kind = "retry" =>
             effectiveStrategy(t).retryCount >= 0)
        => /\ bodyCalls[t] <= Allowed(t)
           /\ wpc[t] \in {"body", "onRetry", "finish"} =>
                 /\ bodyCalls[t] = attempt[t] + 1
                 /\ NumRetries(t) = attempt[t]
           /\ (wpc[t] = "finish" /\ ~err[t].isNil) => bodyCalls[t] = Allowed(t)
           /\ (Ended(t) /\ EndStatus(t) = StatusFailed) =>
                 bodyCalls[t] = Allowed(t)
           /\ (Ended(t) /\ EndStatus(t) \in {StatusChanged, StatusUnchanged}) =>
                 /\ bodyCalls[t] = NumRetries(t) + 1
                 /\ tasks[t].name \notin failed
                 /\ ~Get(results, tasks[t].name).isNil
                 /\ (EndStatus(t) = StatusChanged)
                        <=> Get(results, tasks[t].name).Changed
           /\ ( /\ effectiveStrategy(t).kind \in {"stop_all", "continue"}
                /\ Ended(t) /\ EndStatus(t) # StatusSkipped )
              => bodyCalls[t] = 1

\* a task under retry(1) failed its first attempt, succeeded at its second
\* and ended CHANGED
C9_Witness ==
    \E t \in PlanSet :
        /\ effectiveStrategy(t) = Retry(1)
        /\ Returned(t) /\ Final(t).Status = StatusChanged
        /\ bodyCalls[t] = 2

(***************************************************************************)
(* C10.  on-retry.                                                         *)
(***************************************************************************)
\* what C10 says of the on-retry calls themselves: they are numbered 1, 2,
\* ... in order, each carries the error of the attempt that just failed,
\* none follows the last allowed attempt, none is made under stop_all or
\* continue
RetriesWellFormed(t) ==
    /\ \A k \in 1..NumRetries(t) :
          /\ EventsOf(t, "on-retry")[k].attempt = k
          /\ EventsOf(t, "on-retry")[k].err = BodyErr(t, k - 1)
    /\ NumRetries(t) < Allowed(t) \/ NumRetries(t) = 0
    /\ effectiveStrategy(t).kind # "retry" => NumRetries(t) = 0
    /\ wpc[t] = "body" => NumRetries(t) = bodyCalls[t] - 1

RetryTask(t) ==
    /\ effectiveStrategy(t).kind = "retry"
    /\ effectiveStrategy(t).retryCount >= 0

\* the error of the last allowed attempt of t
FinalErr(t) == BodyErr(t, Allowed(t) - 1)

\* the first position of the level just run that aborts it is that of t
FirstAborting(t) ==
    /\ Aborting # {}
    /\ CurLevel[Min(Aborting)] = t

\* what holds in every state of a task under retry(n) whose attempts have
\* all failed
ExhaustedState(t) ==
    /\ (wpc[t] = "finish" /\ ~err[t].isNil) =>
          /\ bodyCalls[t] = Allowed(t)
          /\ NumRetries(t) = Allowed(t) - 1
          /\ err[t] = FinalErr(t)
    /\ (wpc[t] = "afterTask" /\ tr[t].Status = StatusFailed) =>
          /\ tr[t] = TaskResult(tasks[t].name, StatusFailed, FALSE, FinalErr(t))
          /\ tasks[t].name \in failed
    /\ (Returned(t) /\ Final(t).Status = StatusFailed) =>
          /\ Final(t) = TaskResult(tasks[t].name, StatusFailed, FALSE, FinalErr(t))
          /\ bodyCalls[t] = Allowed(t)
          /\ tasks[t].name \in failed
          /\ pc \in {"wait", "afterLevel", "afterPlan", "returned", "panic"}
          /\ li < Len(levels) /\ InCurLevel(t)
          /\ pc \in {"afterLevel", "afterPlan", "returned"} =>
                /\ ~runErr.isNil
                /\ FirstAborting(t) => runErr = FinalErr(t)
                /\ \E i \in 1..Len(taskResults) : taskResults[i] = Final(t)
          /\ pc = "returned" =>
                /\ ret.done /\ ~ret.isNil
                /\ ret.err = runErr
                /\ ret.tasks = taskResults

\* the step that leaves the retry loop of t with an error records FAILED
\* with that error and puts t in the failed-set
ExhaustedStep(t) ==
    (wpc[t] = "finish" /\ ~err[t].isNil /\ wpc'[t] # wpc[t]) =>
        /\ wpc'[t] = "afterTask"
        /\ tr'[t] = TaskResult(tasks[t].name, StatusFailed, FALSE, err[t])
        /\ tasks[t].name \in failed'

\* C11: under retry(n), when all n + 1 attempts have returned an error the
\* task is recorded FAILED with the error of the last attempt and put in
\* the failed-set, and the level aborts as under stop_all: Run returns an
\* error (that of this task when it is the first failure of the level
\* that aborts) together with the Report collected so far
C11_RetryExhaustedFailsAndAborts ==
    /\ [](\A t \in PlanSet : RetryTask(t) => ExhaustedState(t))
    /\ [][\A t \in PlanSet : RetryTask(t) => ExhaustedStep(t)]_vars

\* Run has returned the error of the second attempt of a task under
\* retry(1) whose two attempts failed
C11_Witness ==
    \E t \in PlanSet :
        /\ effectiveStrategy(t) = Retry(1)
        /\ Returned(t) /\ Final(t).Status = StatusFailed
        /\ bodyCalls[t] = 2
        /\ pc = "returned" /\ ~ret.isNil
        /\ ret.err = BodyErr(t, 1)
        /\ \E i \in 1..Len(ret.tasks) : ret.tasks[i] = Final(t)

(***************************************************************************)
(* C12.  The effective strategy.                                           *)
(***************************************************************************)
\* the strategy the claim gives t: its override if Task.OnError set one,
\* else the default of the plan
Policy(t) ==
    IF tasks[t].errorStrategy # NoStrategy
    THEN tasks[t].errorStrategy
    ELSE config.OnErrorStrategy

\* the attempts that strategy allows
PolicyAttempts(t) ==
    IF Policy(t).kind = "retry" THEN Policy(t).retryCount + 1 ELSE 1

\* every FAILED TaskResult of the Report is that of a task whose strategy,
\* override first, is continue
FailuresUnderContinuePolicy ==
    \A i \in 1..Len(ret.tasks) :
        ret.tasks[i].Status = StatusFailed =>
            Policy(TaskNamed(ret.tasks[i].Name)).kind = "continue"

\* C12: the strategy of a task is its override if set and else the plan
\* default (stop_all for a plan made without options); it decides the
\* number of attempts and whether a failure aborts the run: a failure
\* under continue lets the later levels run, a failure under stop_all or
\* retry aborts, whatever the plan default
C12_OverrideElsePlanDefault ==
    /\ NewPlan(TRUE, <<>>).OnErrorStrategy = StopAll
    /\ \A t \in PlanSet :
          PolicyAttempts(t) >= 1 =>
             /\ bodyCalls[t] <= PolicyAttempts(t)
             /\ (Ended(t) /\ EndStatus(t) = StatusFailed) =>
                   bodyCalls[t] = PolicyAttempts(t)
             /\ (Returned(t) /\ Final(t).Status = StatusFailed
                     /\ Policy(t).kind # "continue") =>
                   /\ \A u \in PlanSet :
                         LevelOf(levels, t) < LevelOf(levels, u) => ~Begun(u)
                   /\ pc = "returned" => ~ret.err.isNil
    /\ (RunReturned /\ FailuresUnderContinuePolicy) =>
          /\ ret.err.isNil
          /\ \A t \in PlanSet : Returned(t)

\* in a plan made without options a task overridden to continue has
\* failed, a task of a later level has run its body, and Run has returned
\* without error
C12_Witness ==
    /\ config = NewPlan(TRUE, <<>>)
    /\ RunReturned /\ ret.err.isNil
    /\ \E t, u \in PlanSet :
          /\ tasks[t].errorStrategy = Continue
          /\ Final(t).Status = StatusFailed
          /\ LevelOf(levels, t) < LevelOf(levels, u)
          /\ bodyCalls[u] = 1 /\ Returned(u)

\* in a plan made with OnError(Continue) a task overridden to stop_all has
\* failed and Run has returned its error, leaving a later level unrun
AbortByOverrideReached ==
    /\ config = NewPlan(TRUE, <<Continue>>)
    /\ pc = "returned"
    /\ \E t, u \in PlanSet :
          /\ tasks[t].errorStrategy = StopAll
          /\ Returned(t) /\ Final(t).Status = StatusFailed
          /\ ret.err = BodyErr(t, 0)
          /\ LevelOf(levels, t) < LevelOf(levels, u)
          /\ ~Begun(u)

(***************************************************************************)
(* C13.  The three skip gates.                                             *)
(***************************************************************************)
ReasonDep    == "dependency failed"
ReasonChange == "no dependencies changed"
ReasonGuard  == "guard returned false"

\* the worker of t is on a skip path with reason r: about to call on-skip,
\* or past it
SkipReason(t, r) ==
    \/ wpc[t] = "onSkip" /\ reason[t] = r
    \/ /\ Ended(t) /\ EndStatus(t) = StatusSkipped
       /\ events[t] # <<>>
       /\ events[t][1] = [ev |-> "on-skip", reason |-> r]

\* the worker of t is on a skip path
OnSkipPath(t) ==
    \/ wpc[t] = "onSkip"
    \/ Ended(t) /\ EndStatus(t) = StatusSkipped

\* some direct dependency of t is in the failed-set
DirectDepFailed(t) == \E d \in DepSet(t) : tasks[d].name \in failed

\* what holds of the gates of t in every state
GateState(t) ==
    /\ guardCalls[t] <= 1
    /\ guardCalls[t] = 1 => tasks[t].guard
    /\ wpc[t] = "changeGate" =>
          tasks[t].requiresChange /\ guardCalls[t] = 0 /\ bodyCalls[t] = 0
    /\ wpc[t] = "guard" => tasks[t].guard /\ guardCalls[t] = 0 /\ bodyCalls[t] = 0
    /\ wpc[t] = "inGuard" => guardCalls[t] = 1 /\ bodyCalls[t] = 0 /\ mu = t
    /\ bodyCalls[t] > 0 => (guardCalls[t] = 1 <=> tasks[t].guard)
    /\ OnSkipPath(t) =>
          /\ bodyCalls[t] = 0
          /\ \/ SkipReason(t, ReasonDep) /\ guardCalls[t] = 0
             \/ /\ SkipReason(t, ReasonChange)
                /\ tasks[t].requiresChange /\ guardCalls[t] = 0
             \/ /\ SkipReason(t, ReasonGuard)
                /\ tasks[t].guard /\ guardCalls[t] = 1

\* what a worker's step through the gates of t does: the dependency
\* check comes first and skips if it fires; else the change gate, if the
\* task has one, comes next and may skip; else the guard, if there is
\* one, is called and may skip; only then the task runs
GateStep(t) ==
    /\ (wpc[t] = "idle" /\ wpc'[t] # "idle") => wpc'[t] = "depCheck"
    /\ (wpc[t] = "depCheck" /\ wpc'[t] # "depCheck") =>
          IF DirectDepFailed(t)
          THEN wpc'[t] = "onSkip" /\ reason'[t] = ReasonDep
          ELSE IF tasks[t].requiresChange THEN wpc'[t] = "changeGate"
          ELSE IF tasks[t].guard THEN wpc'[t] = "guard"
          ELSE wpc'[t] = "beforeTask"
    /\ (wpc[t] = "changeGate" /\ wpc'[t] # "changeGate") =>
          \/ wpc'[t] = "onSkip" /\ reason'[t] = ReasonChange
          \/ wpc'[t] = (IF tasks[t].guard THEN "guard" ELSE "beforeTask")
    /\ (wpc[t] = "guard" /\ wpc'[t] # "guard") => wpc'[t] = "inGuard"
    /\ (wpc[t] = "inGuard" /\ wpc'[t] # "inGuard") =>
          \/ wpc'[t] = "onSkip" /\ reason'[t] = ReasonGuard
          \/ wpc'[t] = "beforeTask"
    /\ guardCalls'[t] # guardCalls[t] => wpc[t] = "guard"
    /\ bodyCalls'[t] # bodyCalls[t] => wpc[t] \in {"beforeTask", "onRetry"}
    /\ (wpc[t] = "onSkip" /\ wpc'[t] # "onSkip") => wpc'[t] = "afterTask"

\* C13: the gates of a task are evaluated in the order dependency-failure
\* gate, change gate, custom guard; the first that fires decides the skip
\* and its reason, the later ones are not evaluated (the guard is not
\* called for a task an earlier gate skipped), and the body of a skipped
\* task is never invoked
C13_GatesInOrderFirstWins ==
    /\ [](\A t \in PlanSet : GateState(t))
    /\ [][\A t \in PlanSet : GateStep(t)]_vars

\* a task with both only-if-changed and a guard was skipped by the change
\* gate, and its guard was not called
C13_Witness ==
    \E t \in PlanSet :
        /\ tasks[t].requiresChange /\ tasks[t].guard
        /\ Returned(t)
        /\ SkipReason(t, ReasonChange)
        /\ guardCalls[t] = 0 /\ bodyCalls[t] = 0

\* a task with both only-if-changed and a guard passed the change gate
\* and was skipped by its guard
SkippedByGuardAfterChangeGate ==
    \E t \in PlanSet :
        /\ tasks[t].requiresChange /\ tasks[t].guard
        /\ Returned(t)
        /\ SkipReason(t, ReasonGuard)
        /\ guardCalls[t] = 1 /\ bodyCalls[t] = 0

(***************************************************************************)
(* C14.  The change gate.                                                  *)
(***************************************************************************)
\* the Results map holds a Result with Changed = true under the name of d
RecordedChanged(d) ==
    /\ ~Get(results, tasks[d].name).isNil
    /\ Get(results, tasks[d].name).Changed

\* some direct dependency of t has a recorded Result with Changed = true
DirectDepChanged(t) == \E d \in DepSet(t) : RecordedChanged(d)

\* the step of an only-if-changed task through the change gate skips it
\* exactly when no direct dependency has a recorded changed Result
ChangeGateStep(t) ==
    (wpc[t] = "changeGate" /\ wpc'[t] # "changeGate") =>
        /\ tasks[t].requiresChange
        /\ IF DirectDepChanged(t)
           THEN wpc'[t] \in {"guard", "beforeTask"}
           ELSE wpc'[t] = "onSkip" /\ reason'[t] = ReasonChange

\* what holds of the change gate of t in every state
ChangeGateState(t) ==
    \* a task of the plan has a changed Result recorded iff it ended CHANGED
    /\ RecordedChanged(t) <=> (Ended(t) /\ EndStatus(t) = StatusChanged)
    \* only an only-if-changed task is ever skipped by the change gate
    /\ SkipReason(t, ReasonChange) => tasks[t].requiresChange
    \* an only-if-changed task that passed the dependency check is either
    \* at the change gate, skipped by it, or went on
    /\ ( /\ tasks[t].requiresChange
         /\ wpc[t] \notin {"idle", "depCheck", "changeGate"}
         /\ ~SkipReason(t, ReasonDep)
         /\ ~SkipReason(t, ReasonChange) ) => DepSet(t) # {}

PassedChangeGate ==
    \E t \in PlanSet :
        /\ tasks[t].requiresChange
        /\ DirectDepChanged(t)
        /\ bodyCalls[t] = 1

\* an only-if-changed task without dependencies was skipped
SkippedWithoutDependencies ==
    \E t \in PlanSet :
        /\ tasks[t].requiresChange /\ DepSet(t) = {}
        /\ Returned(t) /\ SkipReason(t, ReasonChange)

\* an only-if-changed task whose only dependency has no recorded Result
\* (it is not a task of the plan and never ran) was skipped
SkippedAfterDependencyWithoutResult ==
    \E t \in PlanSet, d \in 1..Len(tasks) :
        /\ t # d /\ ~InPlan(d)
        /\ tasks[t].requiresChange /\ DepSet(t) = {d}
        /\ Get(results, tasks[d].name).isNil
        /\ Returned(t) /\ SkipReason(t, ReasonChange)

(***************************************************************************)
(* C15.  before-plan and after-plan.                                       *)
(***************************************************************************)
\* the positions of planEvents that hold an event of kind e
PlanEventsAt(e) == {i \in 1..Len(planEvents) : planEvents[i].ev = e}

\* no hook has been called for any task
NoTaskEvents == \A t \in TaskIds : events[t] = <<>>

\* what holds of before-plan and after-plan in every state
PlanEventsState ==
    /\ Cardinality(PlanEventsAt("before-plan")) <= 1
    /\ Cardinality(PlanEventsAt("after-plan")) <= 1
    /\ planEvents # <<>> => planEvents[1].ev = "before-plan"
    /\ planEvents = <<>> => NoTaskEvents
    /\ PlanEventsAt("after-plan") \subseteq {Len(planEvents)}
    /\ PlanEventsAt("after-plan") # {} =>
          /\ pc = "returned"
          /\ \A t \in PlanSet : wpc[t] \in {"idle", "returned"}
    /\ (pc = "returned" /\ ret.done /\ ~ret.isNil) =>
          /\ Cardinality(PlanEventsAt("before-plan")) = 1
          /\ planEvents[Len(planEvents)] =
                [ev |-> "after-plan", tasks |-> ret.tasks]
    /\ (pc = "returned" /\ ret.done /\ ret.isNil) => planEvents = <<>>

\* the first hook call of a run is before-plan, and no hook is called
\* once after-plan has been
PlanEventsStep ==
    /\ (planEvents = <<>> /\ NoTaskEvents) =>
          /\ NoTaskEvents'
          /\ planEvents' \in {<<>>, <<[ev |-> "before-plan"]>>}
    /\ PlanEventsAt("after-plan") # {} =>
          /\ planEvents' = planEvents
          /\ events' = events

\* C15: in a run of a valid plan before-plan fires once and before every
\* other event, after-plan fires once and after every other event,
\* whether the run completes or aborts after a failing level, and the
\* Report given to after-plan is the one Run returns
C15_PlanEventsFirstAndLast ==
    /\ []PlanEventsState
    /\ [][PlanEventsStep]_vars

\* a run that aborted after its first level, leaving a level unrun, has
\* returned; before-plan came first and after-plan last, with the Report
C15_Witness ==
    /\ pc = "returned" /\ ~ret.isNil /\ ~ret.err.isNil
    /\ li = 0 /\ Len(levels) = 2
    /\ Len(ret.tasks) >= 1
    /\ planEvents[1].ev = "before-plan"
    /\ planEvents[Len(planEvents)] = [ev |-> "after-plan", tasks |-> ret.tasks]

\* a run of two levels has completed without error, after-plan last
CompletedRunFiredAfterPlan ==
    /\ pc = "returned" /\ ~ret.isNil /\ ret.err.isNil
    /\ Len(levels) = 2 /\ Len(ret.tasks) >= 2
    /\ planEvents[Len(planEvents)] = [ev |-> "after-plan", tasks |-> ret.tasks]

(***************************************************************************)
(* C16.  before-level and after-level.                                     *)
(***************************************************************************)
\* before-level / after-level has been called for the 0-based level k
LevelStarted(k) ==
    \E i \in PlanEventsAt("before-level") : planEvents[i].level = k
LevelEnded(k) ==
    \E i \in PlanEventsAt("after-level") : planEvents[i].level = k

\* the TaskResults of a level whose workers have all returned, in the
\* order of the level
FinalsOf(level) == [j \in 1..Len(level) |-> Final(level[j])]

\* the hook calls of runner.run so far are before-plan, then before-level
\* and after-level of levels 0, 1, ... in turn, then after-plan
LevelEventsInTurn ==
    \A i \in 2..Len(planEvents) :
        LET k == (i - 2) \div 2
        IN  IF planEvents[i].ev = "after-plan"
            THEN i = Len(planEvents) /\ i % 2 = 0 /\ i >= 4
            ELSE /\ k < Len(levels)
                 /\ IF i % 2 = 0
                    THEN planEvents[i] =
                            [ev |-> "before-level", level |-> k,
                             parallel |-> Len(levels[k + 1]) > 1]
                    ELSE planEvents[i] =
                            [ev |-> "after-level", level |-> k,
                             results |-> FinalsOf(levels[k + 1])]

\* what holds of the level hooks in every state
LevelEventsState ==
    /\ LevelEventsInTurn
    /\ \A t \in PlanSet :
          (Begun(t) \/ events[t] # <<>>) => LevelStarted(LevelOf(levels, t))
    /\ \A k \in 0..(Len(levels) - 1) :
          /\ LevelEnded(k) =>
                /\ LevelStarted(k)
                /\ \A j \in 1..Len(levels[k + 1]) : Returned(levels[k + 1][j])
          /\ LevelStarted(k + 1) => LevelEnded(k)
    /\ pc = "returned" =>
          \A k \in 0..(Len(levels) - 1) : LevelStarted(k) => LevelEnded(k)
    /\ (pc = "returned" /\ ~ret.isNil /\ ~ret.err.isNil) =>
          /\ LevelEnded(li)
          /\ ~LevelStarted(li + 1)

\* a hook of a task is called only between before-level and after-level
\* of the level of the task
LevelEventsStep ==
    \A t \in PlanSet :
        events'[t] # events[t] =>
            /\ LevelStarted(LevelOf(levels, t))
            /\ ~LevelEnded(LevelOf(levels, t))
            /\ planEvents' = planEvents

\* C16: for every level k the runner starts, before-level(k) fires, with
\* parallel true exactly when the level has more than one task, before
\* any event of a task of the level; every after-task of the level fires
\* before after-level(k), which fires before before-level(k + 1) and also
\* for the level on which the run aborts; so with one task per level the
\* whole sequence of events is determined
C16_LevelEventsBracketTasks ==
    /\ []LevelEventsState
    /\ [][LevelEventsStep]_vars

\* the run of a -> b, both CHANGED: before-plan, before-level 0,
\* before-task a, after-task a, after-level 0, before-level 1,
\* before-task b, after-task b, after-level 1, after-plan
C16_Witness ==
    /\ pc = "returned"
    /\ Len(planTasks) = 2
    /\ \E a, b \in PlanSet :
          LET ra == TaskResult(tasks[a].name, StatusChanged, TRUE, NilErr)
              rb == TaskResult(tasks[b].name, StatusChanged, TRUE, NilErr)
          IN  /\ DepSet(a) = {} /\ DepSet(b) = {a}
              /\ events[a] = <<[ev |-> "before-task"],
                               [ev |-> "after-task", result |-> ra]>>
              /\ events[b] = <<[ev |-> "before-task"],
                               [ev |-> "after-task", result |-> rb]>>
              /\ planEvents =
                    <<[ev |-> "before-plan"],
                      [ev |-> "before-level", level |-> 0, parallel |-> FALSE],
                      [ev |-> "after-level", level |-> 0, results |-> <<ra>>],
                      [ev |-> "before-level", level |-> 1, parallel |-> FALSE],
                      [ev |-> "after-level", level |-> 1, results |-> <<rb>>],
                      [ev |-> "after-plan", tasks |-> <<ra, rb>>]>>

\* before-level was called with parallel = TRUE for a level of two tasks
ParallelLevelStarted ==
    \E i \in PlanEventsAt("before-level") :
        /\ planEvents[i].parallel
        /\ Len(levels[planEvents[i].level + 1]) = 2

(***************************************************************************)
(* C17.  The events of one task.                                           *)
(***************************************************************************)
Kinds(es) == [i \in 1..Len(es) |-> es[i].ev]

\* on-skip, after-task
SkipShape(es) == Kinds(es) = <<"on-skip", "after-task">>

\* before-task, on-retry*, after-task
RunShape(es) ==
    /\ Len(es) >= 2
    /\ es[1].ev = "before-task"
    /\ es[Len(es)].ev = "after-task"
    /\ \A i \in 2..(Len(es) - 1) : es[i].ev = "on-retry"

\* what has fired so far of a shape not yet completed
SkipPrefix(es) == Kinds(es) \in {<<>>, <<"on-skip">>}
RunPrefix(es) ==
    /\ Len(es) >= 1
    /\ es[1].ev = "before-task"
    /\ \A i \in 2..Len(es) : es[i].ev = "on-retry"

HasEvent(t, e) == \E i \in 1..Len(events[t]) : events[t][i].ev = e

TaskEventsState ==
    \A t \in 1..Len(tasks) :
        /\ ~InPlan(t) => events[t] = <<>>
        /\ \/ SkipShape(events[t])
           \/ RunShape(events[t])
           \/ /\ SkipPrefix(events[t]) \/ RunPrefix(events[t])
              /\ wpc[t] # "returned"
        /\ wpc[t] = "returned" => SkipShape(events[t]) \/ RunShape(events[t])
        /\ HasEvent(t, "on-skip") =>
              /\ ~HasEvent(t, "before-task")
              /\ bodyCalls[t] = 0
              /\ Returned(t) => Final(t).Status = StatusSkipped
        /\ (Returned(t) /\ Final(t).Status = StatusSkipped) =>
              SkipShape(events[t])
        /\ bodyCalls[t] > 0 =>
              /\ HasEvent(t, "before-task")
              /\ ~HasEvent(t, "on-skip")

\* one event at a time, appended, and none once after-task has fired
TaskEventsStep ==
    \A t \in 1..Len(tasks) :
        events'[t] # events[t] =>
            /\ ~Returned(t)
            /\ Len(events'[t]) = Len(events[t]) + 1
            /\ SubSeq(events'[t], 1, Len(events[t])) = events[t]
            /\ \A u \in 1..Len(tasks) : u # t => events'[u] = events[u]

\* C17: the events of a task fire as on-skip, after-task when a gate skips
\* it, or as before-task, zero or more on-retry, after-task when it runs;
\* before-task never fires for a skipped task, on-skip never for a task
\* whose body ran, and nothing fires for a task after its after-task
C17_TaskEventShapes ==
    /\ []TaskEventsState
    /\ [][TaskEventsStep]_vars

\* both shapes in one returned run: a task that ran with one retry and a
\* dependent of it that was skipped
C17_Witness ==
    /\ RunReturned
    /\ \E t, u \in PlanSet :
          /\ t \in DepSet(u) /\ t # u
          /\ Kinds(events[t]) = <<"before-task", "on-retry", "after-task">>
          /\ Kinds(events[u]) = <<"on-skip", "after-task">>

(***************************************************************************)
(* C18.  after-task and the Report.                                        *)
(***************************************************************************)
AfterTasks(t) == EventsOf(t, "after-task")

RECURSIVE SumAfterTasks(_)
SumAfterTasks(n) ==
    IF n = 0 THEN 0 ELSE Len(AfterTasks(n)) + SumAfterTasks(n - 1)
\* the after-task calls of the run, over all tasks
NumAfterTasks == SumAfterTasks(Len(tasks))

\* C18: after-task is never called twice for a task, and when Run has
\* returned a Report, every TaskResult of the Report was carried by the
\* one after-task call of its task, every after-task call carried a
\* TaskResult of the Report, and there are as many after-task calls as
\* TaskResults, whatever their status
C18_AfterTaskOncePerTaskResult ==
    /\ \A t \in 1..Len(tasks) : Len(AfterTasks(t)) <= 1
    /\ RunReturned =>
          /\ \A i \in 1..Len(ret.tasks) :
                \E t \in PlanSet :
                    /\ tasks[t].name = ret.tasks[i].Name
                    /\ Entries(ret.tasks, t) = {i}
                    /\ Len(AfterTasks(t)) = 1
                    /\ AfterTasks(t)[1].result = ret.tasks[i]
          /\ \A t \in 1..Len(tasks) :
                Len(AfterTasks(t)) = 1 =>
                    \E i \in 1..Len(ret.tasks) :
                        /\ Entries(ret.tasks, t) = {i}
                        /\ ret.tasks[i] = AfterTasks(t)[1].result
          /\ NumAfterTasks = Len(ret.tasks)

\* a run of three tasks: a CHANGED one, a FAILED one and a SKIPPED one in
\* the Report, each with its after-task call
C18_Witness ==
    /\ RunReturned
    /\ NumAfterTasks = 3
    /\ {ret.tasks[i].Status : i \in 1..Len(ret.tasks)} =
          {StatusChanged, StatusFailed, StatusSkipped}

\* a Report with an UNCHANGED TaskResult, and one shorter than the plan
UnchangedReported ==
    /\ RunReturned
    /\ \E i \in 1..Len(ret.tasks) : ret.tasks[i].Status = StatusUnchanged

TaskAbsentFromReport ==
    /\ RunReturned
    /\ \E t \in PlanSet : Entries(ret.tasks, t) = {} /\ events[t] = <<>>

(***************************************************************************)
(* C19.  One TaskResult per task.                                          *)
(***************************************************************************)
UniqueResultNames(trs) ==
    \A i, j \in 1..Len(trs) : trs[i].Name = trs[j].Name => i = j

\* runLevel starts the worker of t in this step
Dispatched(t) == wpc[t] # "depCheck" /\ wpc'[t] = "depCheck"

OneResultPerTaskState ==
    /\ UniqueResultNames(taskResults)
    /\ UniqueResultNames(ret.tasks)
    /\ \A t \in PlanSet :
          /\ Cardinality(Occurrences(levels, t)) <= 1
          /\ Cardinality(Entries(taskResults, t)) <= 1
          /\ Entries(taskResults, t) # {} => Returned(t)
    /\ \A t \in 1..Len(tasks) :
          ~InPlan(t) => ~Begun(t)

OneDispatchPerTaskStep ==
    \A t \in 1..Len(tasks) :
        /\ Dispatched(t) => ~Begun(t) /\ InPlan(t)
        /\ Begun(t) => wpc'[t] # "idle"

\* C19: no two TaskResults of a Report carry the same name: every task of
\* the plan is in at most one level, its worker is started at most once
\* and contributes at most one TaskResult
C19_TaskResultNamesUnique ==
    /\ []OneResultPerTaskState
    /\ [][OneDispatchPerTaskStep]_vars

\* the Report of a completed run of three tasks over three levels
C19_Witness ==
    /\ RunReturned
    /\ ret.err.isNil
    /\ Len(planTasks) = 3
    /\ Len(levels) = 3
    /\ Len(ret.tasks) = 3
    /\ \A t \in PlanSet : Cardinality(Entries(ret.tasks, t)) = 1

(***************************************************************************)
(* C20.  Terminal statuses and the changed flag.                           *)
(***************************************************************************)
TerminalStatuses ==
    {StatusChanged, StatusUnchanged, StatusSkipped, StatusFailed}

WellFormedResult(r) ==
    /\ r.Status \in TerminalStatuses
    /\ r.Status \notin {StatusPending, StatusRunning}
    /\ r.Changed <=> r.Status = StatusChanged

\* C20: every TaskResult of a Report returned by Run has one of the
\* statuses CHANGED, UNCHANGED, SKIPPED, FAILED, and its changed flag is
\* true exactly when the status is CHANGED
C20_ReportedResultsTerminal ==
    RunReturned =>
        \A i \in 1..Len(ret.tasks) : WellFormedResult(ret.tasks[i])

\* a Report with an UNCHANGED, a FAILED and a SKIPPED TaskResult, none of
\* them flagged changed
C20_Witness ==
    /\ RunReturned
    /\ {ret.tasks[i].Status : i \in 1..Len(ret.tasks)} =
          {StatusUnchanged, StatusFailed, StatusSkipped}
    /\ \A i \in 1..Len(ret.tasks) : ~ret.tasks[i].Changed

\* a Report with a CHANGED TaskResult whose changed flag is set
ChangedReported ==
    /\ RunReturned
    /\ \E i \in 1..Len(ret.tasks) :
          ret.tasks[i].Status = StatusChanged /\ ret.tasks[i].Changed

(***************************************************************************)
(* C21.  Cancellation of the context handed to Run.                        *)
(***************************************************************************)
\* runner.run calls before-level in this step
StartsLevel ==
    /\ Len(planEvents') = Len(planEvents) + 1
    /\ planEvents'[Len(planEvents')].ev = "before-level"

\* C21: once the context is cancelled, the level in progress runs until
\* all its workers have returned, no later level is started (no
\* before-level fires and no worker of a later level begins), and
\* after-level of the level in progress and after-plan still fire
C21_CancelStartsNoLevel ==
    /\ [](ctxDone /\ pc = "returned" /\ ~ret.isNil =>
             /\ Cardinality(PlanEventsAt("after-plan")) = 1
             /\ \A k \in 0..(Len(levels) - 1) :
                   LevelStarted(k) => LevelEnded(k))
    /\ [][ctxDone =>
             /\ ~StartsLevel
             /\ \A t \in PlanSet :
                   Dispatched(t) => LevelStarted(LevelOf(levels, t))]_vars

\* the context is cancelled while the first of two levels is in progress
CancelledInFirstLevel ==
    /\ ctxDone
    /\ pc = "wait" /\ li = 0 /\ Len(levels) = 2
    /\ \E t \in PlanSet : InCurLevel(t) /\ wpc[t] \in {"body", "select"}

\* the started levels of a cancelled run all end and after-plan fires
CancelledRunEnds ==
    ctxDone /\ pc = "returned" /\ ~ret.isNil =>
        /\ Cardinality(PlanEventsAt("after-plan")) = 1
        /\ \A k \in 0..(Len(levels) - 1) : LevelStarted(k) => LevelEnded(k)

\* a cancelled run whose second level was started all the same, after a
\* declarative task that failed with the cancellation under the continue
\* strategy
SecondLevelStartedAfterCancelError ==
    /\ ctxDone
    /\ LevelStarted(1)
    /\ \E u \in PlanSet :
          /\ LevelOf(levels, u) = 0
          /\ Returned(u)
          /\ Final(u).Status = StatusFailed
          /\ Final(u).Error.cause = "context canceled"

(***************************************************************************)
(* C22.  A cancelled context ends the poll loop.                           *)
(***************************************************************************)
CancelErr(t) == OpErr(t, "context canceled")

Polling(t) == wpc[t] = "select"

\* pollJob returns in this step, the context being done
CancelledPollReturns(t) == ctxDone /\ Polling(t) /\ ~Polling(t)'

\* pollJob returned without another poll: by the case of ctx.Done()
ByDoneCase(t) == resp'[t] = resp[t]

\* what a cancelled poll loop returns: the error of the context, or what a
\* poll answered meanwhile makes of it; an error is a failure of the body
CancelledPollStep ==
    \A t \in TaskIds :
        CancelledPollReturns(t) =>
            /\ IF ByDoneCase(t)
               THEN /\ err'[t] = CancelErr(t)
                    /\ result'[t] = NilResult
                    /\ pollVerdict(resp[t]) # "completed"
               ELSE pollVerdict(resp'[t]) # ""
            /\ ~err'[t].isNil =>
                  wpc'[t] = IF retryFollows(t) THEN "onRetry" ELSE "finish"

\* no poll loop is left when Run has returned, and a task whose last
\* attempt ended with the error of the context is FAILED with that error
NoPollerLeft ==
    /\ pc = "returned" => \A t \in TaskIds : ~Polling(t)
    /\ \A t \in PlanSet :
          (wpc[t] = "afterTask" /\ tr[t].Error.cause = "context canceled") =>
              tr[t].Status = StatusFailed

\* C22 as amended: when the context is cancelled while a declarative task
\* polls its job, the poll loop eventually returns without waiting for a
\* terminal job status, so no poller outlives the run; it returns the
\* error of the context unless a poll made meanwhile was answered with an
\* error or a terminal status, and an error it returns is a failure of
\* the body.  (A body of another task that returns neither a Result nor
\* an error ends the process, and the poll loop with it.)
C22_CancelEndsPollLoop ==
    /\ \A t \in TaskIds :
          (ctxDone /\ Polling(t)) ~> (~Polling(t) \/ pc = "panic")
    /\ []NoPollerLeft
    /\ [][CancelledPollStep]_vars

\* C22 as stated: a poll loop that returns after the cancellation returns
\* an error carrying the cancellation cause
C22_CancelledPollReturnsCancelError ==
    [][\A t \in TaskIds :
          CancelledPollReturns(t) => err'[t].cause = "context canceled"]_vars

\* a task FAILED with the error of the context while its job was still
\* in progress
C22_Witness ==
    /\ ctxDone
    /\ \E t \in PlanSet :
          /\ tasks[t].op # NoOp
          /\ wpc[t] = "finish"
          /\ err[t] = CancelErr(t)
          /\ resp[t] = Response(StatusOK, "processing")

(***************************************************************************)
(* C23.  What executing a declarative task yields.                         *)
(***************************************************************************)
Declarative(t) == t \in 1..Len(tasks) /\ tasks[t].op # NoOp

\* executeOp returns an error in this step
YieldsError(t) ==
    /\ ~err'[t].isNil
    /\ result'[t] = NilResult
    /\ wpc'[t] \in {"onRetry", "finish"}

\* executeOp returns a Result with Changed = true in this step
YieldsChanged(t) ==
    /\ err'[t].isNil
    /\ result'[t] = Result(TRUE)
    /\ wpc'[t] = "finish"

\* the step of executeOp that creates the job
CreateStep(t) ==
    (wpc[t] = "body" /\ wpc'[t] # "body" /\ config.client) =>
        /\ jobCreates'[t] = jobCreates[t] + 1
        /\ IF resp'[t].err \/ resp'[t].code # 201
           THEN YieldsError(t)
           ELSE Polling(t)' /\ result'[t] = result[t] /\ err'[t] = err[t]

\* a step of pollJob in which a poll is answered
PollStep(t) ==
    (Polling(t) /\ resp'[t] # resp[t]) =>
        /\ jobCreates'[t] = jobCreates[t]
        /\ IF resp'[t].err \/ resp'[t].code # 200 THEN YieldsError(t)
           ELSE IF resp'[t].status = "completed" THEN YieldsChanged(t)
           ELSE IF resp'[t].status = "failed" THEN YieldsError(t)
           ELSE Polling(t)' /\ result'[t] = result[t] /\ err'[t] = err[t]

\* a Result is yielded only for a completed job
ResultOnlyIfCompleted(t) ==
    (result'[t] # result[t] /\ ~result'[t].isNil) =>
        /\ Polling(t)
        /\ resp'[t] = Response(200, "completed")
        /\ result'[t].Changed

\* one job per call of executeOp, created before the first poll
OneJobPerCall ==
    \A t \in TaskIds :
        Declarative(t) =>
            /\ jobCreates[t] <= bodyCalls[t]
            /\ Polling(t) => jobCreates[t] = bodyCalls[t] /\ bodyCalls[t] >= 1
            /\ Polling(t) => resp[t] \in {Response(201, ""),
                                          Response(200, "processing"),
                                          Response(200, "")}

JobFailedYieldsError ==
    \E t \in PlanSet :
        /\ wpc[t] = "finish" /\ err[t].cause = "job failed"
        /\ resp[t] = Response(200, "failed")

PollStatusYieldsError ==
    \E t \in PlanSet :
        /\ wpc[t] = "finish" /\ err[t].cause = "poll job: unexpected status"
        /\ jobCreates[t] = 1

CreateErrorYieldsError ==
    \E t \in PlanSet :
        /\ wpc[t] = "finish" /\ err[t].cause = "create job"
        /\ resp[t] = TransportErr

(***************************************************************************)
(* C24.  Read-only operations.                                             *)
(***************************************************************************)
\* the operations the documentation lists as read-only, among Ops
ReadOnlyOps == {"node.hostname.get"}

\* the job of t completed: its worker recorded a Result
JobCompleted(t) ==
    /\ Returned(t)
    /\ Final(t).Status \in {StatusChanged, StatusUnchanged}

\* C24: a declarative task whose operation is read-only and whose job
\* completes has a Result with Changed = false and is UNCHANGED, so a task
\* with only-if-changed that depends only on it is skipped
C24_ReadOnlyIsUnchanged ==
    \A t \in PlanSet :
        (tasks[t].op \in ReadOnlyOps /\ JobCompleted(t)) =>
            /\ ~Get(results, tasks[t].name).Changed
            /\ Final(t).Status = StatusUnchanged
            /\ \A u \in PlanSet :
                  (tasks[u].requiresChange /\ DepSet(u) = {t} /\ Returned(u))
                      => Final(u).Status = StatusSkipped

\* the body of a task with only-if-changed is called although its only
\* dependency is a read-only operation
RunsAfterReadOnlyDependency ==
    \E t, u \in PlanSet :
        /\ tasks[t].op \in ReadOnlyOps
        /\ tasks[u].requiresChange /\ DepSet(u) = {t} /\ t # u
        /\ Returned(t) /\ Final(t).Status = StatusChanged
        /\ bodyCalls[u] = 1

(***************************************************************************)
(* C25.  The empty plan.                                                   *)
(***************************************************************************)
EmptyPlanReturned == pc = "returned" /\ planTasks = <<>>

\* C25: running a plan without tasks returns no error and a Report without
\* TaskResults, and the hooks called are before-plan and then after-plan
C25_EmptyPlanFiresPlanEventsOnly ==
    EmptyPlanReturned =>
        /\ ~ret.isNil /\ ret.err.isNil /\ ret.tasks = <<>>
        /\ Kinds(planEvents) = <<"before-plan", "after-plan">>

\* what Run returns for the empty plan
EmptyPlanReturnsEmptyReport ==
    EmptyPlanReturned => ~ret.isNil /\ ret.err.isNil /\ ret.tasks = <<>>

\* the hooks called for the empty plan include those of a level without
\* tasks
EmptyPlanFiresLevelEvents ==
    /\ EmptyPlanReturned
    /\ levels = <<<<>>>>
    /\ planEvents =
          <<[ev |-> "before-plan"],
            [ev |-> "before-level", level |-> 0, parallel |-> FALSE],
            [ev |-> "after-level", level |-> 0, results |-> <<>>],
            [ev |-> "after-plan", tasks |-> <<>>]>>

(***************************************************************************)
(* C26.  Levels and Explain are pure and repeatable.                       *)
(***************************************************************************)
\* a call of Plan.Levels or Plan.Explain has returned in this step
LevelsReturns == lastLevels' # lastLevels
ExplainReturns == lastExplain' # lastExplain

\* the plan, its tasks and the whole state of the run
ProgramState ==
    <<tasks, planTasks, config, pc, ret, levels, li, results, failed, mu,
      taskResults, levelResults, wpc, attempt, result, err, tr, events,
      planEvents, bodyCalls, guardCalls, runErr, reason, ctxDone, resp,
      jobCreates>>

\* a call changes nothing, and a call that follows a call on the same plan
\* returns what that one returned
QueryStep ==
    /\ (LevelsReturns \/ ExplainReturns) => UNCHANGED ProgramState
    /\ (LevelsReturns /\ lastLevels'.again)
          => lastLevels'.out = lastLevels.out
    /\ (ExplainReturns /\ lastExplain'.again)
          => lastExplain'.out = lastExplain.out

\* Run validates and levelizes the plan as the calls did: it rejects the
\* plan exactly when they reported the error, and it runs the levels they
\* returned, which are those the text describes
RunAgreesWithQueries ==
    /\ (lastLevels.called /\ pc = "beforePlan")
          => /\ ~lastLevels.out.isNil
             /\ lastLevels.out.levels = levels
    /\ (lastLevels.called /\ pc = "returned")
          => /\ lastLevels.out.isNil
             /\ ret.err = ValidationErr
    /\ (lastExplain.called /\ pc = "beforePlan")
          => /\ ~lastExplain.out.invalid
             /\ lastExplain.out.nlevels = Len(levels)
             /\ \A k \in 1..Len(levels) :
                   Len(lastExplain.out.levels[k].tasks) = Len(levels[k])
    /\ (lastExplain.called /\ pc = "returned") => lastExplain.out.invalid

AskedPlanRuns == pc = "beforePlan" /\ lastLevels.again /\ Len(levels) = 2

\* a plan that Validate rejects was asked for its text, and Run returned
AskedPlanRejected == pc = "returned" /\ lastExplain.again

(***************************************************************************)
(* C27.  Two runs of the same plan.                                        *)
(***************************************************************************)
\* what a Report says of its tasks, durations and order aside
ReportedTasks(report) == {report.tasks[i] : i \in 1..Len(report.tasks)}

BothRunsReturned == pc = "returned" /\ firstReport.done

\* C27: two runs of the same plan with deterministic bodies and guards
\* report the same names and, for each task, the same status, changed flag
\* and error, whatever the interleaving of the workers of a level.
C27_TwoRunsReportTheSame ==
    BothRunsReturned
        => /\ firstReport.isNil = ret.isNil
           /\ firstReport.err = ret.err
           /\ ReportedTasks(firstReport) = ReportedTasks(ret)

\* the two runs of a plan without guards report the same
TwoRunsReportTheSameWithoutGuards ==
    (BothRunsReturned /\ \A t \in 1..Len(tasks) : ~tasks[t].guard)
        => ReportedTasks(firstReport) = ReportedTasks(ret)

\* the two runs report the same when every guarded task depends on the
\* task its guard reads, or is that task
TwoRunsReportTheSameIfGuardsReadDependencies ==
    (/\ BothRunsReturned
     /\ \A t \in 1..Len(tasks) :
           tasks[t].guard =>
              \/ t = planTasks[1]
              \/ \E j \in 1..Len(tasks[t].deps) :
                    tasks[t].deps[j] = planTasks[1])
        => ReportedTasks(firstReport) = ReportedTasks(ret)

\* two tasks of one level, the second guarded: it ran in the first run and
\* was skipped in the second
GuardedTaskRanThenSkipped ==
    /\ BothRunsReturned
    /\ Len(levels) = 1
    /\ \E i \in 1..Len(ret.tasks), j \in 1..Len(firstReport.tasks) :
          /\ ret.tasks[i].Name = firstReport.tasks[j].Name
          /\ ret.tasks[i].Status = StatusSkipped
          /\ firstReport.tasks[j].Status = StatusChanged

(***************************************************************************)
(* C28.  The order of the TaskResults.                                     *)
(***************************************************************************)
\* the position of plan task t in the plan: the order of the calls of
\* Plan.Task / Plan.TaskFunc
PlanPos(t) == CHOOSE i \in 1..Len(planTasks) : planTasks[i] = t

\* a list of TaskResults is ordered by level and, inside a level, by the
\* position of the tasks in the plan
InPlanOrder(trs) ==
    \A i, j \in 1..Len(trs) :
        i < j =>
            LET a == TaskNamed(trs[i].Name)
                b == TaskNamed(trs[j].Name)
            IN  \/ LevelOf(levels, a) < LevelOf(levels, b)
                \/ /\ LevelOf(levels, a) = LevelOf(levels, b)
                   /\ PlanPos(a) < PlanPos(b)

\* the names of the tasks of a level, in the order of the level
NamesOfLevel(level) == [i \in 1..Len(level) |-> tasks[level[i]].name]
NamesOfResults(trs) == [i \in 1..Len(trs) |-> trs[i].Name]

\* while the workers of a level run, a worker that has returned has filled
\* the slot of its task's position in the level and no other
SlotsByPosition ==
    pc = "wait" =>
        \A i \in 1..Len(CurLevel) :
            IF wpc[CurLevel[i]] = "returned"
            THEN levelResults[i].Name = tasks[CurLevel[i]].name
            ELSE levelResults[i] = NoTaskResult

\* C28: the Report lists the TaskResults level by level and, inside a
\* level, in the order the tasks were added to the plan, whatever the order
\* in which the workers of the level start and finish; the list handed to
\* after-level has the order of the level, which is that same order.
C28_ResultsInLevelAndPlanOrder ==
    /\ SlotsByPosition
    /\ InPlanOrder(taskResults)
    /\ (ret.done /\ ~ret.isNil) => InPlanOrder(ret.tasks)
    /\ \A i \in PlanEventsAt("after-level") :
          /\ NamesOfResults(planEvents[i].results)
                = NamesOfLevel(levels[planEvents[i].level + 1])
          /\ InPlanOrder(planEvents[i].results)
    /\ \A k \in 1..Len(levels) : \A i, j \in 1..Len(levels[k]) :
          i < j => PlanPos(levels[k][i]) < PlanPos(levels[k][j])

\* a Report of three tasks in two levels, the first level holding two
\* tasks, is returned
C28_Witness ==
    /\ ret.done /\ ~ret.isNil
    /\ Len(ret.tasks) = 3
    /\ Len(levels) = 2
    /\ Len(levels[1]) = 2
    /\ planEvents[3].ev = "after-level"
    /\ Len(planEvents[3].results) = 2

\* the worker of the second task of a level has returned before the worker
\* of the first task has started
LaterTaskReturnsFirst ==
    /\ pc = "wait"
    /\ Len(CurLevel) = 2
    /\ wpc[CurLevel[2]] = "returned"
    /\ wpc[CurLevel[1]] = "depCheck"
    /\ levelResults[2].Status = StatusChanged

(***************************************************************************)
(* C29.  What a task sees of its dependencies in the Results map.          *)
(***************************************************************************)
\* the change gate of t has run, its guard has been called, or its body
\* has been reached
GateRan(t) ==
    \/ tasks[t].requiresChange
          /\ wpc[t] \notin {"idle", "depCheck", "changeGate"}
    \/ guardCalls[t] > 0
    \/ bodyCalls[t] > 0
    \/ wpc[t] = "body"

\* the worker of d stores the Result of a body that succeeded in this step
StoresResult(d) ==
    /\ wpc[d] = "finish"
    /\ wpc'[d] = "afterTask"
    /\ tr'[d].Status \in {StatusChanged, StatusUnchanged}

\* the Result of a task that ended CHANGED or UNCHANGED is in the map under
\* the task's name
ResultsHoldEnded ==
    \A d \in PlanSet :
        (Ended(d) /\ EndStatus(d) \in {StatusChanged, StatusUnchanged})
            => /\ tasks[d].name \in DOMAIN results
               /\ ~results[tasks[d].name].isNil
               /\ results[tasks[d].name].Changed
                     = (EndStatus(d) = StatusChanged)

\* a Result is stored before the change gate of any task that depends on
\* its task, directly or not, has run
StoredBeforeDependents ==
    \A d \in PlanSet :
        StoresResult(d) =>
            \A t \in PlanSet : d \in TransDeps(t) => ~GateRan(t)

\* C29: when the change gate, the guard or the body of a task runs, the
\* Results map holds the Result of each of its direct and transitive
\* dependencies that finishes CHANGED or UNCHANGED.
C29_DependencyResultsVisible ==
    /\ []ResultsHoldEnded
    /\ [][StoredBeforeDependents]_vars

\* the same for plans whose dependencies are all tasks of the plan
DependencyResultsVisibleIfClosed ==
    /\ []ResultsHoldEnded
    /\ [][ClosedPlan => StoredBeforeDependents]_vars

\* the body of the last task of a chain of three runs, and the map holds
\* the Results of the two tasks before it
ChainSeesResults ==
    /\ ClosedPlan
    /\ Len(levels) = 3
    /\ \E t \in PlanSet :
          /\ wpc[t] = "body"
          /\ Cardinality(TransDeps(t)) = 2
          /\ \A d \in TransDeps(t) : tasks[d].name \in DOMAIN results

\* a task is at its body while a dependency of it that is in the plan has
\* not started
BodyRunsBeforeDependencyStarts ==
    \E t \in PlanSet : \E d \in DepSet(t) \cap PlanSet :
        wpc[t] = "body" /\ wpc[d] = "idle"

(***************************************************************************)
(* C30.  Dependencies are tasks of the plan.                               *)
(***************************************************************************)
\* Run has accepted the plan: it did not return the validation error
RunAccepted == pc # "build" /\ ~(ret.done /\ ret.isNil)

\* C30: in every plan that Validate accepts, and so in every plan that is
\* run, each dependency of each task is a task of that plan; each
\* dependency of a task whose body was called was dispatched in an earlier
\* level of the run.
C30_DependenciesAreInPlan ==
    /\ (Validate = "nil") => ClosedPlan
    /\ RunAccepted => ClosedPlan
    /\ \A t \in PlanSet :
          bodyCalls[t] > 0 =>
              \A d \in DepSet(t) :
                  /\ Begun(d)
                  /\ LevelOf(levels, d) >= 0
                  /\ LevelOf(levels, d) < LevelOf(levels, t)

\* a plan with a dependency that was never added to it has run to the end:
\* the dependent's body was called, the dependency is in no level and was
\* never dispatched
RanWithDependencyOutsidePlan ==
    /\ pc = "returned" /\ ~ret.isNil
    /\ \E t \in PlanSet : \E d \in DepSet(t) :
          /\ d \notin PlanSet
          /\ bodyCalls[t] > 0
          /\ LevelOf(levels, d) = -1
          /\ wpc[d] = "idle"

(***************************************************************************)
(* C31.  The Results map and the failed-set are accessed under the mutex.  *)
(***************************************************************************)
\* a worker reads or writes r.results or r.failed in this step: the
\* dependency-failure check, the change gate, the call of the guard, or the
\* recording of a Result or of a failure
AccessesShared(t) ==
    /\ wpc[t] \in {"depCheck", "changeGate", "guard", "finish"}
    /\ wpc'[t] # wpc[t]

\* the mutex is held by the worker that is inside its guard and by no other
MutexHeldByGuard ==
    /\ mu # 0 => wpc[mu] = "inGuard"
    /\ \A t \in TaskIds : wpc[t] = "inGuard" => mu = t

\* a worker enters a section that accesses the shared state only when no
\* worker holds the mutex, and while a guard is evaluated neither the map
\* nor the set changes
SharedAccessStep ==
    /\ \A t \in TaskIds : AccessesShared(t) => mu = 0
    /\ (results' # results \/ failed' # failed) /\ pc = "wait" => mu = 0
    /\ mu # 0 => UNCHANGED <<results, failed>>

\* C31: every read and write of the Results map and of the failed-set by a
\* worker happens with the mutex held by that worker alone, so that no two
\* workers access them at once and a guard sees no write while it runs.
C31_SharedStateUnderMutex ==
    /\ []MutexHeldByGuard
    /\ [][SharedAccessStep]_vars

\* a guard is being evaluated while another worker of the level has its
\* Result ready to record and waits for the mutex
C31_Witness ==
    /\ mu # 0
    /\ \E t \in TaskIds : t # mu /\ wpc[t] = "finish" /\ err[t].isNil

(***************************************************************************)
(* C32.  Entries of the Results map and of the failed-set are kept.        *)
(***************************************************************************)
\* the names written into the Results map in this step
NewResultNames == (DOMAIN results') \ (DOMAIN results)

\* during a run every entry of the map stays as it is, the failed-set keeps
\* its names, and a write adds one name that the map did not hold
WriteOnceStep ==
    pc # "build" =>
        /\ \A n \in DOMAIN results :
              n \in DOMAIN results' /\ results'[n] = results[n]
        /\ failed \subseteq failed'
        /\ results' # results => Cardinality(NewResultNames) = 1
        /\ Cardinality(failed' \ failed) <= 1

\* the names of the map and of the set are names of tasks of the plan, one
\* entry per task
EntriesAreOfPlanTasks ==
    /\ \A n \in DOMAIN results : \E t \in PlanSet : tasks[t].name = n
    /\ \A n \in failed : \E t \in PlanSet : tasks[t].name = n

\* C32: once a Result is written for a task, its entry is neither
\* overwritten nor removed for the rest of the run: each name is written at
\* most once, and the Results map and the failed-set only grow.
C32_ResultsWrittenOnce ==
    /\ []EntriesAreOfPlanTasks
    /\ [][WriteOnceStep]_vars

\* a run has returned with two Results in the map, one changed and one
\* unchanged, and one name in the failed-set
C32_Witness ==
    /\ pc = "returned"
    /\ Cardinality(DOMAIN results) = 2
    /\ \E n, m \in DOMAIN results : results[n].Changed /\ ~results[m].Changed
    /\ Cardinality(failed) = 1

(***************************************************************************)
(* C33.  What the Results map and the failed-set hold.                     *)
(***************************************************************************)
\* t has ended CHANGED or UNCHANGED
EndedWithResult(t) ==
    Ended(t) /\ EndStatus(t) \in {StatusChanged, StatusUnchanged}

\* t has ended FAILED, or was skipped by the dependency-failure gate
FailedOrSkippedForDependency(t) ==
    \/ Ended(t) /\ EndStatus(t) = StatusFailed
    \/ SkippedFor(t, "dependency failed")

\* t was skipped by the change gate or by its guard
SkippedByGateOrGuard(t) ==
    \/ SkippedFor(t, "no dependencies changed")
    \/ SkippedFor(t, "guard returned false")

\* the two collections hold what the claim says of task t
HoldsAsEnded(t) ==
    /\ tasks[t].name \in DOMAIN results <=> EndedWithResult(t)
    /\ tasks[t].name \in failed <=> FailedOrSkippedForDependency(t)
    /\ ~(tasks[t].name \in DOMAIN results /\ tasks[t].name \in failed)
    /\ SkippedByGateOrGuard(t) =>
          /\ tasks[t].name \notin DOMAIN results
          /\ tasks[t].name \notin failed

\* C33: at every point of a run a task's name is in the Results map iff
\* its body completed without error (the task ends CHANGED or UNCHANGED),
\* and in the failed-set iff the task ended FAILED or was skipped by the
\* dependency-failure gate; no name is in both, and a task skipped by the
\* change gate or by its guard is in neither.
C33_MapAndSetMatchOutcomes ==
    pc # "build" => \A t \in PlanSet : HoldsAsEnded(t)

\* the same at every point at which no worker has panicked
MapAndSetMatchOutcomesUnlessPanic ==
    pc \notin {"build", "panic"} => \A t \in PlanSet : HoldsAsEnded(t)

\* a worker has stored a nil Result under its task's name and panicked
NilResultStored ==
    /\ pc = "panic"
    /\ \E t \in PlanSet :
          /\ wpc[t] = "panic"
          /\ tasks[t].name \in DOMAIN results
          /\ results[tasks[t].name].isNil

\* a run returned with a task in the map, a task in the set because it
\* FAILED, and a task in neither because its guard returned false
MapSetAndNeither ==
    /\ pc = "returned"
    /\ \E t, u, v \in PlanSet :
          /\ EndedWithResult(t) /\ tasks[t].name \in DOMAIN results
          /\ Ended(u) /\ EndStatus(u) = StatusFailed
          /\ tasks[u].name \in failed
          /\ SkippedFor(v, "guard returned false")
          /\ tasks[v].name \notin failed

(***************************************************************************)
(* C34.  Who is skipped for a failed dependency.                           *)
(***************************************************************************)
\* a direct or transitive dependency of t has ended FAILED
HasFailedDependency(t) ==
    \E d \in TransDeps(t) : Ended(d) /\ EndStatus(d) = StatusFailed

\* C34: a task is skipped with reason "dependency failed" only if one of
\* its direct or transitive dependencies ended FAILED in the run; a task
\* without such a dependency, and a task whose dependency was only skipped
\* by the change gate or a guard, is not skipped by that gate.
C34_SkippedOnlyBelowFailure ==
    \A t \in PlanSet :
        SkippedFor(t, "dependency failed") => HasFailedDependency(t)

\* the same for plans whose dependencies are all tasks of the plan
SkippedOnlyBelowFailureIfClosed ==
    ClosedPlan => C34_SkippedOnlyBelowFailure

\* a task is skipped for a failed dependency although the only task that
\* failed is none of its dependencies
SkippedBesideFailure ==
    \E t, u \in PlanSet :
        /\ SkippedFor(t, "dependency failed")
        /\ Ended(u) /\ EndStatus(u) = StatusFailed
        /\ u \notin TransDeps(t)
        /\ ~HasFailedDependency(t)

\* in a plan whose dependencies are its own tasks, a task whose dependency
\* was skipped by its guard has run its body
RanBelowGuardSkip ==
    /\ ClosedPlan
    /\ \E t \in PlanSet : \E d \in DepSet(t) :
          /\ SkippedFor(d, "guard returned false")
          /\ Ended(t) /\ EndStatus(t) = StatusChanged

\* under continue a task of another branch runs after a failure
UnrelatedBranchRuns ==
    /\ ClosedPlan
    /\ \E t, u, v \in PlanSet :
          /\ Ended(u) /\ EndStatus(u) = StatusFailed
          /\ u \in DepSet(v) /\ SkippedFor(v, "dependency failed")
          /\ u \notin TransDeps(t) /\ t # u
          /\ Ended(t) /\ EndStatus(t) = StatusChanged

(***************************************************************************)
(* C35.  A task that passes its gates has its body invoked.                *)
(***************************************************************************)
\* t has passed the three gates: before-task was called for it
PassedGates(t) == HasEvent(t, "before-task")

\* the worker of t has left the retry loop
LeftLoop(t) == wpc[t] \in {"finish", "afterTask", "returned", "panic"}

\* C35: a task that passes the three gates has its body invoked at least
\* once before its TaskResult is recorded, under stop-all, continue and
\* Retry(n) for every integer n.
C35_BodyInvokedAfterGates ==
    \A t \in PlanSet : (PassedGates(t) /\ LeftLoop(t)) => bodyCalls[t] >= 1

\* the same for the strategies whose retry count is not negative
BodyInvokedAfterGatesUnlessNegative ==
    \A t \in PlanSet :
        (PassedGates(t) /\ LeftLoop(t) /\ maxAttempts(t) >= 1)
            => bodyCalls[t] >= 1

\* under Retry(-1) the worker has panicked after before-task without a call
\* of the body and without an after-task
PanickedWithoutBody ==
    \E t \in PlanSet :
        /\ effectiveStrategy(t) = Retry(-1)
        /\ wpc[t] = "panic"
        /\ bodyCalls[t] = 0
        /\ PassedGates(t)
        /\ ~HasEvent(t, "after-task")

\* under Retry(0) the body was called once and the task ended FAILED
RetryZeroCallsBodyOnce ==
    \E t \in PlanSet :
        /\ effectiveStrategy(t) = Retry(0)
        /\ Ended(t) /\ EndStatus(t) = StatusFailed
        /\ bodyCalls[t] = 1

(***************************************************************************)
(* C36.  Every outcome of a body is recorded.                              *)
(***************************************************************************)
\* the body of t has been called and its worker has left the retry loop
BodyDone(t) == bodyCalls[t] >= 1 /\ LeftLoop(t)

\* the TaskResults recorded for t in the list of its level or of the run
RecordedFor(t) ==
    Cardinality({i \in 1..Len(taskResults) :
                    taskResults[i].Name = tasks[t].name})

\* C36: whatever a body returns, a Result without error, an error with or
\* without a Result, or neither, its worker completes and records one
\* TaskResult with a terminal status, and after-task, after-level and
\* after-plan follow.
C36_EveryBodyOutcomeRecorded ==
    /\ \A t \in PlanSet : BodyDone(t) => wpc[t] # "panic"
    /\ \A t \in PlanSet :
          (BodyDone(t) /\ Ended(t)) => EndStatus(t) \in TerminalStatuses
    /\ pc = "returned" =>
          \A t \in PlanSet : BodyDone(t) =>
              /\ HasEvent(t, "after-task")
              /\ RecordedFor(t) = 1

\* the same for the bodies that return a Result or an error
BodyOutcomeRecordedUnlessNeither ==
    /\ \A t \in PlanSet :
          (BodyDone(t) /\ Ended(t)) => EndStatus(t) \in TerminalStatuses
    /\ pc = "returned" =>
          \A t \in PlanSet : BodyDone(t) =>
              /\ HasEvent(t, "after-task")
              /\ RecordedFor(t) = 1
    /\ \A t \in PlanSet :
          (BodyDone(t) /\ wpc[t] = "panic") =>
              /\ tasks[t].name \in DOMAIN results
              /\ results[tasks[t].name].isNil

\* a body returned neither a Result nor an error: its worker has panicked
\* with no TaskResult, no after-task and no after-plan
BodyReturnedNeither ==
    /\ pc = "panic"
    /\ \E t \in PlanSet :
          /\ wpc[t] = "panic"
          /\ bodyCalls[t] = 1
          /\ effectiveStrategy(t).kind # "retry"
          /\ ~HasEvent(t, "after-task")
    /\ PlanEventsAt("after-plan") = {}

(***************************************************************************)
(* C37.  No level is empty.                                                *)
(***************************************************************************)
RECURSIVE ChainFrom(_, _)
\* the number of tasks of the longest dependency chain that ends in t
ChainFrom(t, fuel) ==
    IF fuel = 0 \/ DepSet(t) = {} THEN 1
    ELSE 1 + Max({ChainFrom(d, fuel - 1) : d \in DepSet(t)})

\* the length of the longest dependency chain of the plan
LongestChain ==
    IF PlanSet = {} THEN 0
    ELSE Max({ChainFrom(t, Len(tasks)) : t \in PlanSet})

\* what levelize gives for a plan that Validate accepts
LevelsAreChains ==
    Validate = "nil" =>
        /\ \A k \in 1..Len(levelize) : levelize[k] # <<>>
        /\ Len(levelize) = LongestChain

\* before-level and after-level are called for levels that hold a task
LevelEventsOfTasks ==
    \A i \in 1..Len(planEvents) :
        planEvents[i].ev \in {"before-level", "after-level"}
            => levels[planEvents[i].level + 1] # <<>>

\* C37: every level of a plan that Validate accepts holds at least one
\* task and the number of levels is the length of the longest dependency
\* chain, so a plan without tasks has no level; before-level and
\* after-level are called only for levels that hold a task.
C37_NoEmptyLevel ==
    /\ LevelsAreChains
    /\ LevelEventsOfTasks

\* the same for plans that hold a task and whose dependencies are all tasks
\* of the plan
NoEmptyLevelIfClosedAndNotEmpty ==
    (ClosedPlan /\ planTasks # <<>>) => C37_NoEmptyLevel

\* Validate accepts the plan without tasks and levelize gives it one level
EmptyPlanHasOneLevel ==
    /\ planTasks = <<>>
    /\ Validate = "nil"
    /\ levelize = <<<<>>>>

\* a plan of three tasks in a chain has three levels
ChainOfThreeHasThreeLevels ==
    /\ ClosedPlan
    /\ Len(planTasks) = 3
    /\ Validate = "nil"
    /\ LongestChain = 3
    /\ Len(levelize) = 3

(***************************************************************************)
(* C38.  Every Run starts afresh.                                          *)
(***************************************************************************)
\* this is the second Run of the plan
SecondRun == firstReport.done

\* a Run starts in this step
RunStarts == pc \in {"build", "returned"} /\ pc' = "beforePlan"

\* a Run starts with an empty map, an empty set and nothing executed, and
\* no step of a run changes the plan or its tasks
FreshRunStep ==
    /\ RunStarts =>
          /\ results' = EmptyMap
          /\ failed' = {}
          /\ taskResults' = <<>>
          /\ mu' = 0
          /\ \A t \in TaskIds : wpc'[t] = "idle"
    /\ pc # "build" => UNCHANGED <<tasks, planTasks, config>>

\* in a second Run as in a first, the map and the set hold what the tasks
\* did in that Run and nothing else
HoldsOfThisRun ==
    pc \notin {"build", "panic"} => \A t \in PlanSet : HoldsAsEnded(t)

\* C38: every Run starts from an empty Results map and an empty failed-set
\* and leaves the plan and its tasks unchanged; what an earlier Run
\* recorded is not seen by the gates and guards of a later Run.
C38_RunStartsAfresh ==
    /\ []HoldsOfThisRun
    /\ [][FreshRunStep]_vars

\* the first Run reported a as FAILED and its dependent b as skipped; in the
\* second Run a has ended CHANGED and the body of b has been called
C38_Witness ==
    /\ SecondRun
    /\ ClosedPlan
    /\ \E a, b \in PlanSet :
          /\ a \in DepSet(b)
          /\ \E i, j \in 1..Len(firstReport.tasks) :
                /\ firstReport.tasks[i].Name = tasks[a].name
                /\ firstReport.tasks[i].Status = StatusFailed
                /\ firstReport.tasks[j].Name = tasks[b].name
                /\ firstReport.tasks[j].Status = StatusSkipped
          /\ Ended(a) /\ EndStatus(a) = StatusChanged
          /\ bodyCalls[b] = 1

(***************************************************************************)
(* C39.  Run terminates.                                                   *)
(***************************************************************************)
\* runner.run has begun
RunBegun == pc \notin {"build", "returned"} \/ planEvents # <<>>

\* Run has returned after after-plan
RunEnded == pc = "returned" /\ PlanEventsAt("after-plan") # {}

\* the mutex is free whenever no worker is inside its guard, and all
\* workers of a level have returned when its wait is over
NothingHeld ==
    /\ (\A t \in TaskIds : wpc[t] # "inGuard") => mu = 0
    /\ pc \in {"afterLevel", "afterPlan", "returned"} =>
          /\ mu = 0
          /\ \A t \in PlanSet : wpc[t] \in {"idle", "returned"}

\* the retry loop is bounded by the attempts of the strategy
RetryBounded ==
    \A t \in PlanSet :
        /\ attempt[t] <= MaxRetry
        /\ bodyCalls[t] <= MaxRetry + 1

\* C39: if every body, guard and hook returns, Run terminates: the mutex
\* is released on every path, the wait of every level completes, the retry
\* loop is bounded, and after-plan is called and Run returns.
C39_RunTerminates ==
    /\ []NothingHeld
    /\ []RetryBounded
    /\ RunBegun ~> RunEnded

\* the same, unless a worker panics
RunTerminatesUnlessPanic ==
    /\ []NothingHeld
    /\ []RetryBounded
    /\ RunBegun ~> (RunEnded \/ pc = "panic")

\* a run of three levels in which a body was retried has ended
LongRunEnded ==
    /\ RunEnded
    /\ Len(levels) = 3
    /\ \E t \in PlanSet : bodyCalls[t] = 2

(***************************************************************************)
(* C40.  The mutex is not held over bodies and hooks.                      *)
(***************************************************************************)
\* the worker of t is about to call, or is inside, a hook or the body
InBodyOrHook(t) ==
    wpc[t] \in {"onSkip", "beforeTask", "body", "select", "onRetry",
                "afterTask"}

\* no worker holds the mutex while it is at a hook or at its body
NotHeldInBodyOrHook == \A t \in TaskIds : InBodyOrHook(t) => mu # t

\* whatever the other workers of the level do outside a guard, a worker
\* can take its next step
OthersCanGoOn ==
    (pc = "wait" /\ \A u \in TaskIds : wpc[u] # "inGuard") =>
        \A t \in TaskIds :
            /\ wpc[t] = "depCheck" => ENABLED DepCheck(t)
            /\ wpc[t] = "changeGate" => ENABLED ChangeGate(t)
            /\ wpc[t] = "guard" => ENABLED GuardLock(t)
            /\ wpc[t] = "beforeTask" => ENABLED CallBeforeTask(t)
            /\ wpc[t] = "finish" => ENABLED Finish(t)
            /\ wpc[t] = "afterTask" => ENABLED CallAfterTask(t)

\* C40: the mutex is never held while a body or a hook (on-skip,
\* before-task, on-retry, after-task) runs, only while the shared maps are
\* read or written and while a guard is evaluated; so a body or a hook that
\* blocks in one worker keeps no other worker of the level from evaluating
\* its gates, running its body and recording its result.
C40_MutexNotHeldOverBodies ==
    /\ NotHeldInBodyOrHook
    /\ OthersCanGoOn

\* while the body of one worker of a level has not returned, another worker
\* of the level that passed its guard has run its body and has returned
\* CHANGED
C40_Witness ==
    /\ pc = "wait"
    /\ \E t, u \in PlanSet :
          /\ t # u
          /\ wpc[u] = "body" /\ bodyCalls[u] = 1
          /\ InCurLevel(t) /\ InCurLevel(u)
          /\ guardCalls[t] = 1
          /\ wpc[t] = "returned"
          /\ Final(t).Status = StatusChanged

(***************************************************************************)
(* The same statements for plans whose dependencies are all tasks of the   *)
(* plan.  C1, C2, C3 and C5 fail only through a dependency that was never  *)
(* added to the plan.                                                      *)
(***************************************************************************)
BodyAfterDependenciesIfClosed ==
    ClosedPlan => C1_BodyAfterDependencies

LevelIsOnePlusMaxDepIfClosed ==
    ClosedPlan => C2_LevelIsOnePlusMaxDep

ValidateIffDuplicateOrCycleIfClosed ==
    ClosedPlan => C3_ValidateIffDuplicateOrCycle

DependentsOfFailedAreSkippedIfClosed ==
    ClosedPlan => C5_DependentsOfFailedAreSkipped

====
